---------------------------- MODULE Spec2Model ----------------------------
(***************************************************************************)
(* Data path of the burst-buffer file system: the client dispatcher        *)
(* (rpc_send_write / rpc_send_read), the daemon's write and read handlers  *)
(* (rpc_srv_write / rpc_srv_read), the I/O tasklets and the node-local     *)
(* chunk store (ChunkStorage).                                             *)
(*                                                                         *)
(* Bytes are small integers: 0 is a byte never written (a hole or a        *)
(* zero-initialised buffer), GARBAGE is the content of freed memory.       *)
(***************************************************************************)
EXTENDS Integers, Sequences, FiniteSets, TLC

\* ------------------------------------------------------------ constants
CHUNKSIZE == 3
RPC_TRIES == 3
HostSize  == 2
HostId    == 0

EIO    == 5
EBUSY  == 16
ENOSPC == 28
ENOENT == 2
EEXIST == 17

\* ------------------------------------------------------------ bounds
MaxOffset == 3
MaxSize   == 5
MaxFaults == 1
MaxIoSteps == 2
MaxShort   == 1
MaxPathLen == 4
MaxPaths   == 2

GARBAGE == 0 - 1

Hosts    == 0 .. (HostSize - 1)
MaxChunk == (MaxOffset + MaxSize - 1) \div CHUNKSIZE
ChunkIds == 0 .. MaxChunk

Min(a, b) == IF a <= b THEN a ELSE b
Max(a, b) == IF a >= b THEN a ELSE b

Zeros(n) == [k \in 1 .. n |-> 0]

\* the n bytes of s that start at (0-based) position off
Slice(s, off, n) == SubSeq(s, off + 1, off + n)

\* s with the bytes of d copied in at (0-based) position off
Paste(s, off, d) ==
    [k \in 1 .. Len(s) |->
        IF k > off /\ k <= off + Len(d) THEN d[k - off] ELSE s[k]]

RECURSIVE SumSeq(_)
SumSeq(s) == IF s = <<>> THEN 0 ELSE Head(s) + SumSeq(Tail(s))

\* ------------------------------------------------------------ block arithmetic
lpad(offset, alignment) == offset % alignment

rpad(offset, alignment) == (alignment - (offset % alignment)) % alignment

block_num(offset, alignment) == offset \div alignment

VARIABLES
    hash,      \* placement: chunk id -> daemon id (fixed for a run)
    client,    \* the client call in progress
    srv,       \* per daemon: the data handler serving the client's RPC
    store,     \* per daemon: the chunk files of the file
    hist,      \* the last client write that returned (offset, size, data, result)
    faults,    \* injected failures still available
    dirs,      \* per daemon: the chunk directory of the file exists
    trunc,     \* per daemon: the truncate handler serving a truncate RPC
    names      \* the chunk directory names computed so far, with their file paths

vars == <<hash, client, srv, store, hist, faults, dirs, trunc, names>>

\* ------------------------------------------------------------ placement
adafs_hash_path_chunk(chnk_id) == hash[chnk_id]

\* ------------------------------------------------------------ chunk store
NoFile == [exists |-> FALSE, data |-> <<>>]

\* What one pwrite / pread call does: RETRY is a call that fails with EINTR,
\* EAGAIN or EWOULDBLOCK, FATAL one that fails with another errno, and n > 0 a
\* call that transfers at most n bytes.  A schedule lists the outcomes of the
\* first calls of a loop; the calls after it transfer all they are asked for.
RETRY == 0
FATAL == 0 - 1

IoOutcomes == RETRY .. MaxShort

IoScheds == UNION {[1 .. n -> IoOutcomes] : n \in 0 .. MaxIoSteps}

FatalScheds == {Append(sched, FATAL) : sched \in IoScheds}

\* ChunkStorage::init_chunk_space: mkdir of the chunk directory, EEXIST is fine
init_chunk_space(dir) == TRUE

\* open(O_WRONLY | O_CREAT): the file exists afterwards, its bytes are kept
OpenCreate(file) == [exists |-> TRUE, data |-> file.data]

\* pwrite(fd, data, pos): the file grows to pos + Len(data), a gap reads as 0
pwrite(file, data, pos) ==
    LET old   == file.data
        len   == IF data = <<>> THEN Len(old) ELSE Max(Len(old), pos + Len(data))
        grown == [k \in 1 .. len |-> IF k <= Len(old) THEN old[k] ELSE 0]
    IN  [exists |-> TRUE, data |-> Paste(grown, pos, data)]

\* write_chunk that writes at the start of the chunk file whatever the offset
write_chunk_at_zero(file, buf, size, offset, sched) ==
    [file |-> pwrite(OpenCreate(file), Slice(buf, 0, size), 0),
     err  |-> 0,
     ret  |-> size]

\* write_chunk that returns one byte less than it wrote
write_chunk_short_count(file, buf, size, offset, sched) ==
    [file |-> pwrite(OpenCreate(file), Slice(buf, 0, size), offset),
     err  |-> 0,
     ret  |-> size - 1]

\* write_chunk that returns what its first pwrite wrote
write_chunk_single_pwrite(file, buf, size, offset, sched) ==
    LET outcome == IF sched = <<>> \/ Head(sched) <= 0 THEN size ELSE Head(sched)
        wrote   == Min(outcome, size)
    IN  [file |-> pwrite(OpenCreate(file), Slice(buf, 0, wrote), offset),
         err  |-> 0,
         ret  |-> wrote]

\* the do-while loop of write_chunk from its wrote_total-th byte on
RECURSIVE WriteLoop(_, _, _, _, _, _)
WriteLoop(file, buf, size, offset, wrote_total, sched) ==
    LET outcome == IF sched = <<>> THEN size - wrote_total ELSE Head(sched)
        rest    == IF sched = <<>> THEN <<>> ELSE Tail(sched)
    IN  IF sched # <<>> /\ outcome = FATAL
        THEN [file |-> file, err |-> ENOSPC, ret |-> 0]
        ELSE IF sched # <<>> /\ outcome = RETRY
        THEN IF wrote_total # size
             THEN WriteLoop(file, buf, size, offset, wrote_total, rest)
             ELSE [file |-> file, err |-> 0, ret |-> wrote_total]
        ELSE LET wrote == Min(outcome, size - wrote_total)
                 f     == pwrite(file, Slice(buf, wrote_total, wrote),
                                 offset + wrote_total)
             IN  IF wrote_total + wrote # size
                 THEN WriteLoop(f, buf, size, offset, wrote_total + wrote, rest)
                 ELSE [file |-> f, err |-> 0, ret |-> wrote_total + wrote]

\* write_chunk that opens the chunk file with O_TRUNC
write_chunk_truncates(file, buf, size, offset, sched) ==
    WriteLoop([exists |-> TRUE, data |-> <<>>], buf, size, offset, 0, sched)

\* ChunkStorage::write_chunk on one chunk file: O_CREAT without O_TRUNC, then
\* positional writes until size bytes are written at offset; err is the errno
\* of the exception it throws (0: none)
write_chunk(file, buf, size, offset, sched) ==
    WriteLoop(OpenCreate(file), buf, size, offset, 0, sched)

\* read_chunk that reports a missing chunk file as an I/O error
read_chunk_missing_is_eio(file, size, offset, sched) ==
    IF ~file.exists
    THEN [err |-> EIO, ret |-> 0, data |-> <<>>]
    ELSE LET n == Min(size, Max(0, Len(file.data) - offset))
         IN  [err |-> 0, ret |-> n, data |-> Slice(file.data, offset, n)]

\* read_chunk that returns 0 for a missing chunk file
read_chunk_missing_is_empty(file, size, offset, sched) ==
    IF ~file.exists
    THEN [err |-> 0, ret |-> 0, data |-> <<>>]
    ELSE LET n == Min(size, Max(0, Len(file.data) - offset))
         IN  [err |-> 0, ret |-> n, data |-> Slice(file.data, offset, n)]

\* read_chunk that does not count the zero bytes of a gap inside the chunk file
read_chunk_holes_uncounted(file, size, offset, sched) ==
    IF ~file.exists
    THEN [err |-> ENOENT, ret |-> 0, data |-> <<>>]
    ELSE LET n == Min(size, Max(0, Len(file.data) - offset))
             d == Slice(file.data, offset, n)
         IN  [err |-> 0, ret |-> Cardinality({k \in 1 .. n : d[k] # 0}), data |-> d]

\* read_chunk that returns what its first pread read
read_chunk_single_pread(file, size, offset, sched) ==
    IF ~file.exists
    THEN [err |-> ENOENT, ret |-> 0, data |-> <<>>]
    ELSE LET outcome == IF sched = <<>> \/ Head(sched) <= 0 THEN size ELSE Head(sched)
             n == Min(Min(outcome, size), Max(0, Len(file.data) - offset))
         IN  [err |-> 0, ret |-> n, data |-> Slice(file.data, offset, n)]

\* the do-while loop of read_chunk from its read_total-th byte on; data is
\* what the calls so far have put into the buffer
RECURSIVE ReadLoop(_, _, _, _, _, _)
ReadLoop(file, size, offset, read_total, data, sched) ==
    LET outcome == IF sched = <<>> THEN size - read_total ELSE Head(sched)
        rest    == IF sched = <<>> THEN <<>> ELSE Tail(sched)
    IN  IF sched # <<>> /\ outcome = FATAL
        THEN [err |-> EIO, ret |-> 0, data |-> data]
        ELSE IF sched # <<>> /\ outcome = RETRY
        THEN IF read_total # size
             THEN ReadLoop(file, size, offset, read_total, data, rest)
             ELSE [err |-> 0, ret |-> read_total, data |-> data]
        ELSE LET avail == Max(0, Len(file.data) - (offset + read_total))
                 read  == Min(Min(outcome, size - read_total), avail)
                 d     == data \o Slice(file.data, offset + read_total, read)
             IN  IF read = 0
                 THEN [err |-> 0, ret |-> read_total, data |-> data]
                 ELSE IF read_total + read # size
                 THEN ReadLoop(file, size, offset, read_total + read, d, rest)
                 ELSE [err |-> 0, ret |-> read_total + read, data |-> d]

\* ChunkStorage::read_chunk: a missing file raises the errno of open (ENOENT);
\* otherwise positional reads until size bytes are read or end of file; err is
\* the errno of the exception it throws (0: none)
read_chunk(file, size, offset, sched) ==
    IF ~file.exists
    THEN [err |-> ENOENT, ret |-> 0, data |-> <<>>]
    ELSE ReadLoop(file, size, offset, 0, <<>>, sched)

\* ------------------------------------------------------------ client: bucketize
\* a bucketize loop that records the target of every chunk, known or not
RECURSIVE CollectTargets_every_chunk(_, _, _)
CollectTargets_every_chunk(chnk_id, chnk_end, acc) ==
    IF chnk_id > chnk_end THEN acc
    ELSE LET target == adafs_hash_path_chunk(chnk_id)
             next   == [targets      |-> Append(acc.targets, target),
                        target_chnks |-> [acc.target_chnks EXCEPT
                                              ![target] = Append(@, chnk_id)]]
         IN  CollectTargets_every_chunk(chnk_id + 1, chnk_end, next)

\* a bucketize loop that keeps only the first chunk of every target
RECURSIVE CollectTargets_first_chunk_only(_, _, _)
CollectTargets_first_chunk_only(chnk_id, chnk_end, acc) ==
    IF chnk_id > chnk_end THEN acc
    ELSE LET target == adafs_hash_path_chunk(chnk_id)
             next   ==
                IF acc.target_chnks[target] = <<>>
                THEN [targets      |-> Append(acc.targets, target),
                      target_chnks |-> [acc.target_chnks EXCEPT ![target] = <<chnk_id>>]]
                ELSE acc
         IN  CollectTargets_first_chunk_only(chnk_id + 1, chnk_end, next)

RECURSIVE CollectTargets(_, _, _)
CollectTargets(chnk_id, chnk_end, acc) ==
    IF chnk_id > chnk_end THEN acc
    ELSE LET target == adafs_hash_path_chunk(chnk_id)
             next   ==
                IF acc.target_chnks[target] = <<>>
                THEN [targets      |-> Append(acc.targets, target),
                      target_chnks |-> [acc.target_chnks EXCEPT ![target] = <<chnk_id>>]]
                ELSE [targets      |-> acc.targets,
                      target_chnks |-> [acc.target_chnks EXCEPT
                                            ![target] = Append(@, chnk_id)]]
         IN  CollectTargets(chnk_id + 1, chnk_end, next)

NoTargets == [targets |-> <<>>, target_chnks |-> [t \in Hosts |-> <<>>]]

\* total_chunk_size that forgets the right pad of the last chunk
TotalChunkSize_no_rpad(c, target) ==
    Len(c.target_chnks[target]) * CHUNKSIZE
      - (IF target = c.chnk_start_target THEN lpad(c.offset, CHUNKSIZE) ELSE 0)

\* total_chunk_size that takes a whole chunk off when the range ends on a
\* chunk boundary
TotalChunkSize_whole_chunk_pad(c, target) ==
    Len(c.target_chnks[target]) * CHUNKSIZE
      - (IF target = c.chnk_start_target THEN lpad(c.offset, CHUNKSIZE) ELSE 0)
      - (IF target = c.chnk_end_target
         THEN CHUNKSIZE - ((c.offset + c.size) % CHUNKSIZE) ELSE 0)

\* total_chunk_size of the RPC to `target`
TotalChunkSize(c, target) ==
    Len(c.target_chnks[target]) * CHUNKSIZE
      - (IF target = c.chnk_start_target THEN lpad(c.offset, CHUNKSIZE) ELSE 0)
      - (IF target = c.chnk_end_target THEN rpad(c.offset + c.size, CHUNKSIZE) ELSE 0)

\* bit i is set iff chunk chnk_start + i is placed on target
BuildBitset(chnk_start, chnk_end, target) ==
    [k \in 0 .. (chnk_end - chnk_start) |-> adafs_hash_path_chunk(chnk_start + k) = target]

get_bitset(wbitset, pos) == pos \in DOMAIN wbitset /\ wbitset[pos]

NoInput ==
    [op |-> "none", offset |-> 0, chunk_n |-> 0, chunk_start |-> 0, chunk_end |-> 0,
     total_chunk_size |-> 0, bulk_handle |-> "none", bulk_size |-> 0,
     wbitset |-> [k \in 0 .. 0 |-> FALSE]]

RpcInput(c, target) ==
    [op               |-> c.op,
     offset           |-> lpad(c.offset, CHUNKSIZE),
     chunk_n          |-> Len(c.target_chnks[target]),
     chunk_start      |-> c.chnk_start,
     chunk_end        |-> c.chnk_end,
     total_chunk_size |-> TotalChunkSize(c, target),
     bulk_handle      |-> IF target = HostId THEN "ipc" ELSE "rpc",
     bulk_size        |-> c.size,
     wbitset          |-> BuildBitset(c.chnk_start, c.chnk_end, target)]

\* ------------------------------------------------------------ initial state
IdleClient ==
    [pc |-> "idle", op |-> "none", calls |-> 0, offset |-> 0, size |-> 0, buf |-> <<>>,
     chnk_start |-> 0, chnk_end |-> 0,
     targets |-> <<>>, target_chnks |-> [t \in Hosts |-> <<>>],
     chnk_start_target |-> 0, chnk_end_target |-> 0,
     rpc_bulk_handle |-> "null", ipc_bulk_handle |-> "null",
     rpc_handles |-> <<>>, i |-> 0,
     out_size |-> 0, err |-> 0, errno |-> 0, ret |-> 0]

IdleSrv ==
    [pc |-> "idle", in |-> NoInput, bulk_handle |-> "null", sbuf |-> <<>>,
     chnk_id_file |-> 0, chnk_id_curr |-> 0, chnk_size_left_host |-> 0,
     transfer_size |-> 0, chnk_ptr |-> 0, tasks |-> <<>>,
     out |-> [err |-> 0, io_size |-> 0],
     responded |-> 0, in_freed |-> FALSE, handle_destroyed |-> FALSE,
     canceled |-> FALSE]

NoHist == [offset |-> 0, size |-> 0, buf |-> <<>>, ret |-> 0, errno |-> 0]

\* failing: the chunk files of the daemon that cannot be unlinked; trims: the
\* outcome of every trim_chunk_space run so far; again: the RPC is a repetition
IdleTrunc ==
    [pc |-> "idle", length |-> 0, failing |-> {}, err |-> 0, out |-> 0, responded |-> 0,
     trims |-> <<>>, again |-> FALSE]

InitCommon ==
    /\ hash \in [ChunkIds -> Hosts]
    /\ client = IdleClient
    /\ srv = [d \in Hosts |-> IdleSrv]
    /\ store = [d \in Hosts |-> [c \in ChunkIds |-> NoFile]]
    /\ hist = NoHist
    /\ dirs = [d \in Hosts |-> FALSE]
    /\ trunc = [d \in Hosts |-> IdleTrunc]
    /\ names = {}

Init == InitCommon /\ faults = 0


\* ------------------------------------------------------------ helpers on state
TargetN(c) == Len(c.targets)

NullHandle == [state |-> "null", waited |-> FALSE, out_freed |-> FALSE, destroyed |-> 0]

TasksDone(s) == \A k \in 1 .. Len(s.tasks) : s.tasks[k].state = "done"

Quiescent == \A d \in Hosts : srv[d].pc \in {"idle", "done"} /\ TasksDone(srv[d])

\* the client's registration that the handle in an RPC input names
ClientBulk(which) ==
    IF which = "ipc" THEN client.ipc_bulk_handle
    ELSE IF which = "rpc" THEN client.rpc_bulk_handle
    ELSE "created"

WriteData(size) == [k \in 1 .. size |-> k]

\* ------------------------------------------------------------ client dispatcher
\* rpc_send_write / rpc_send_read up to and including the two margo_bulk_create
ClientSetup(op, offset, size, buf) ==
    LET chnk_start == block_num(offset, CHUNKSIZE)
        chnk_end   == block_num((offset + size) - 1, CHUNKSIZE)
        col        == CollectTargets(chnk_start, chnk_end, NoTargets)
    IN  [IdleClient EXCEPT
            !.pc = IF col.targets = <<>> THEN "join" ELSE "fanout",
            !.op = op, !.calls = client.calls + 1,
            !.offset = offset, !.size = size, !.buf = buf,
            !.chnk_start = chnk_start, !.chnk_end = chnk_end,
            !.targets = col.targets, !.target_chnks = col.target_chnks,
            !.chnk_start_target =
                IF chnk_start <= chnk_end THEN adafs_hash_path_chunk(chnk_start) ELSE 0,
            !.chnk_end_target =
                IF chnk_start <= chnk_end THEN adafs_hash_path_chunk(chnk_end) ELSE 0,
            !.rpc_bulk_handle = "created", !.ipc_bulk_handle = "created",
            !.rpc_handles = [k \in 1 .. Len(col.targets) |-> NullHandle],
            !.i = 0]

ClientCanStart == client.pc \in {"idle", "done"} /\ Quiescent

rpc_send_write ==
    /\ ClientCanStart
    /\ client.calls = 0
    /\ \E in_offset \in 0 .. MaxOffset, write_size \in 1 .. MaxSize,
          append_flag \in BOOLEAN, grown \in 0 .. MaxOffset :
          LET updated_metadentry_size == grown + write_size
              offset == IF append_flag THEN updated_metadentry_size - write_size
                        ELSE in_offset
          IN  client' = ClientSetup("write", offset, write_size, WriteData(write_size))
    /\ srv' = [d \in Hosts |-> IdleSrv]
    /\ UNCHANGED <<hash, names, store, hist, faults, dirs, trunc>>

rpc_send_read ==
    /\ ClientCanStart
    /\ client.calls = 1
    /\ \E offset \in 0 .. MaxOffset, read_size \in 1 .. MaxSize :
          client' = ClientSetup("read", offset, read_size, Zeros(read_size))
    /\ srv' = [d \in Hosts |-> IdleSrv]
    /\ UNCHANGED <<hash, names, store, hist, faults, dirs, trunc>>

\* one iteration of the fan-out loop: margo_create_wrap and margo_iforward succeed
ClientForward ==
    /\ client.pc = "fanout"
    /\ client.i < TargetN(client)
    /\ LET i      == client.i
           target == client.targets[i + 1]
       IN  /\ srv' = [srv EXCEPT ![target] =
                        [IdleSrv EXCEPT !.pc = "pending", !.in = RpcInput(client, target)]]
           /\ client' = [client EXCEPT
                            !.rpc_handles[i + 1].state = "inflight",
                            !.i = IF i + 1 = TargetN(client) THEN 0 ELSE i + 1,
                            !.pc = IF i + 1 = TargetN(client) THEN "join" ELSE "fanout"]
    /\ UNCHANGED <<hash, names, store, hist, faults, dirs, trunc>>

\* a join loop whose error flag follows the latest handle only
JoinStep_err_of_last(c, wait_ok, output_ok, out) ==
    LET i   == c.i
        res == IF output_ok THEN out ELSE [err |-> 0, io_size |-> 0]
    IN  [c EXCEPT
            !.errno = IF res.err # 0 THEN res.err
                      ELSE IF ~wait_ok THEN EBUSY ELSE @,
            !.err = IF ~wait_ok \/ ~output_ok THEN 0 - 1 ELSE 0,
            !.out_size = @ + res.io_size,
            !.rpc_handles[i + 1] =
                [state |-> IF wait_ok THEN "completed" ELSE "failed",
                 waited |-> TRUE, out_freed |-> TRUE, destroyed |-> @.destroyed + 1],
            !.i = i + 1]

\* the body of the join loop for handle i, given what margo_wait and
\* margo_get_output returned
JoinStep(c, wait_ok, output_ok, out) ==
    LET i   == c.i
        res == IF output_ok THEN out ELSE [err |-> 0, io_size |-> 0]
    IN  [c EXCEPT
            !.errno = IF res.err # 0 THEN res.err
                      ELSE IF ~wait_ok THEN EBUSY ELSE @,
            !.err = IF ~wait_ok \/ ~output_ok THEN 0 - 1 ELSE @,
            !.out_size = @ + res.io_size,
            !.rpc_handles[i + 1] =
                [state |-> IF wait_ok THEN "completed" ELSE "failed",
                 waited |-> TRUE, out_freed |-> TRUE, destroyed |-> @.destroyed + 1],
            !.i = i + 1]

\* one iteration of the join loop: the response of targets[i] has arrived
ClientJoin ==
    /\ client.pc = "join"
    /\ client.i < TargetN(client)
    /\ LET target == client.targets[client.i + 1]
       IN  /\ srv[target].responded > 0
           /\ client' = JoinStep(client, TRUE, TRUE, srv[target].out)
    /\ UNCHANGED <<hash, names, srv, store, hist, faults, dirs, trunc>>

\* a return that turns an error reported by a daemon into a negative result
ClientFinish_daemon_error_negative ==
    /\ client.pc = "join"
    /\ client.i = TargetN(client)
    /\ client' = [client EXCEPT
                    !.pc = "done",
                    !.rpc_bulk_handle = "freed", !.ipc_bulk_handle = "freed",
                    !.ret = IF client.err < 0 \/ client.errno # 0 THEN 0 - 1 ELSE client.out_size]
    /\ hist' = IF client.op = "write"
               THEN [offset |-> client.offset, size |-> client.size, buf |-> client.buf,
                     ret |-> IF client.err < 0 \/ client.errno # 0 THEN 0 - 1 ELSE client.out_size,
                     errno |-> client.errno]
               ELSE hist
    /\ UNCHANGED <<hash, names, srv, store, faults, dirs, trunc>>

\* after the join loop: free both bulk handles and return
ClientFinish ==
    /\ client.pc = "join"
    /\ client.i = TargetN(client)
    /\ client' = [client EXCEPT
                    !.pc = "done",
                    !.rpc_bulk_handle = "freed", !.ipc_bulk_handle = "freed",
                    !.ret = IF client.err < 0 THEN client.err ELSE client.out_size]
    /\ hist' = IF client.op = "write"
               THEN [offset |-> client.offset, size |-> client.size, buf |-> client.buf,
                     ret |-> IF client.err < 0 THEN client.err ELSE client.out_size,
                     errno |-> client.errno]
               ELSE hist
    /\ UNCHANGED <<hash, names, srv, store, faults, dirs, trunc>>

\* ------------------------------------------------------------ daemon: handlers
\* rpc_srv_write / rpc_srv_read, steps 1 and 2: the input is decoded and the
\* bulk buffer of total_chunk_size bytes is created and accessed
SrvBegin(d) ==
    /\ srv[d].pc = "pending"
    /\ LET in == srv[d].in
       IN  srv' = [srv EXCEPT ![d] = [@ EXCEPT
                !.pc = "walk",
                !.out = [err |-> EIO, io_size |-> 0],
                !.bulk_handle = "created",
                !.sbuf = Zeros(in.total_chunk_size),
                !.chnk_id_file = in.chunk_start,
                !.chnk_id_curr = 0,
                !.chnk_size_left_host = in.total_chunk_size,
                !.chnk_ptr = 0,
                !.transfer_size = IF in.bulk_size <= CHUNKSIZE
                                  THEN in.bulk_size ELSE CHUNKSIZE]]
    /\ UNCHANGED <<hash, names, client, store, hist, faults, dirs, trunc>>

\* the loop condition of the chunk walk
WalkMore(s) ==
    s.chnk_id_file <= s.in.chunk_end /\ s.chnk_id_curr < s.in.chunk_n

\* a chunk walk that takes every chunk of the range for its own
WalkHit_every_chunk(s) == s.chnk_id_file >= s.in.chunk_start

\* the chunk under the walk hashes to this daemon
WalkHit(s) == get_bitset(s.in.wbitset, s.chnk_id_file - s.in.chunk_start)

\* a chunk walk that hands in.offset to the tasklet of every chunk
WalkCalc_offset_everywhere(s) ==
    LET in    == s.in
        first == s.chnk_id_file = in.chunk_start /\ in.offset > 0
        offset_transfer_size ==
            IF in.offset + in.bulk_size <= CHUNKSIZE
            THEN in.bulk_size ELSE CHUNKSIZE - in.offset
        transfer_size ==
            IF ~first /\ s.chnk_id_curr = in.chunk_n - 1
            THEN s.chnk_size_left_host ELSE s.transfer_size
    IN  [local_offset  |-> IF first THEN 0
                           ELSE in.total_chunk_size - s.chnk_size_left_host,
         origin_offset |-> IF first THEN 0
                           ELSE IF in.offset > 0
                           THEN (CHUNKSIZE - in.offset)
                                  + ((s.chnk_id_file - in.chunk_start) - 1) * CHUNKSIZE
                           ELSE (s.chnk_id_file - in.chunk_start) * CHUNKSIZE,
         transfer_size |-> transfer_size,
         size          |-> IF first THEN offset_transfer_size ELSE transfer_size,
         offset        |-> in.offset]

\* a chunk walk that moves a whole transfer unit for the last chunk too
WalkCalc_last_chunk_whole(s) ==
    LET in    == s.in
        first == s.chnk_id_file = in.chunk_start /\ in.offset > 0
        offset_transfer_size ==
            IF in.offset + in.bulk_size <= CHUNKSIZE
            THEN in.bulk_size ELSE CHUNKSIZE - in.offset
        transfer_size ==
            s.transfer_size
    IN  [local_offset  |-> IF first THEN 0
                           ELSE in.total_chunk_size - s.chnk_size_left_host,
         origin_offset |-> IF first THEN 0
                           ELSE IF in.offset > 0
                           THEN (CHUNKSIZE - in.offset)
                                  + ((s.chnk_id_file - in.chunk_start) - 1) * CHUNKSIZE
                           ELSE (s.chnk_id_file - in.chunk_start) * CHUNKSIZE,
         transfer_size |-> transfer_size,
         size          |-> IF first THEN offset_transfer_size ELSE transfer_size,
         offset        |-> IF s.chnk_id_file = in.chunk_start THEN in.offset ELSE 0]

\* a chunk walk whose origin offset forgets the offset inside the first chunk
WalkCalc_origin_whole_chunks(s) ==
    LET in    == s.in
        first == s.chnk_id_file = in.chunk_start /\ in.offset > 0
        offset_transfer_size ==
            IF in.offset + in.bulk_size <= CHUNKSIZE
            THEN in.bulk_size ELSE CHUNKSIZE - in.offset
        transfer_size ==
            IF ~first /\ s.chnk_id_curr = in.chunk_n - 1
            THEN s.chnk_size_left_host ELSE s.transfer_size
    IN  [local_offset  |-> IF first THEN 0
                           ELSE in.total_chunk_size - s.chnk_size_left_host,
         origin_offset |-> IF first THEN 0
                           ELSE (s.chnk_id_file - in.chunk_start) * CHUNKSIZE,
         transfer_size |-> transfer_size,
         size          |-> IF first THEN offset_transfer_size ELSE transfer_size,
         offset        |-> IF s.chnk_id_file = in.chunk_start THEN in.offset ELSE 0]

\* what one servicing iteration of the chunk walk computes for chunk chnk_id_file
WalkCalc(s) ==
    LET in    == s.in
        first == s.chnk_id_file = in.chunk_start /\ in.offset > 0
        offset_transfer_size ==
            IF in.offset + in.bulk_size <= CHUNKSIZE
            THEN in.bulk_size ELSE CHUNKSIZE - in.offset
        transfer_size ==
            IF ~first /\ s.chnk_id_curr = in.chunk_n - 1
            THEN s.chnk_size_left_host ELSE s.transfer_size
    IN  [local_offset  |-> IF first THEN 0
                           ELSE in.total_chunk_size - s.chnk_size_left_host,
         origin_offset |-> IF first THEN 0
                           ELSE IF in.offset > 0
                           THEN (CHUNKSIZE - in.offset)
                                  + ((s.chnk_id_file - in.chunk_start) - 1) * CHUNKSIZE
                           ELSE (s.chnk_id_file - in.chunk_start) * CHUNKSIZE,
         transfer_size |-> transfer_size,
         size          |-> IF first THEN offset_transfer_size ELSE transfer_size,
         offset        |-> IF s.chnk_id_file = in.chunk_start THEN in.offset ELSE 0]

\* a bulk transfer of n bytes is inside both registered regions
TransferFits(in, origin_offset, local_offset, n) ==
    /\ n >= 0
    /\ origin_offset >= 0 /\ origin_offset + n <= in.bulk_size
    /\ local_offset >= 0 /\ local_offset + n <= in.total_chunk_size

NewTask(s, w) ==
    [chnk_id |-> s.chnk_id_file, buf_off |-> s.chnk_ptr, size |-> w.size,
     offset |-> w.offset, local_offset |-> w.local_offset,
     origin_offset |-> w.origin_offset, state |-> "pending", res |-> 0,
     mkdir_errno |-> 0]

\* a handler that moves its buffer pointer by a whole chunk per serviced chunk
Serviced_pointer_by_chunk(s, w, sbuf) ==
    [s EXCEPT
        !.sbuf = sbuf,
        !.tasks = Append(@, NewTask(s, w)),
        !.transfer_size = w.transfer_size,
        !.chnk_ptr = @ + CHUNKSIZE,
        !.chnk_size_left_host = @ - w.size,
        !.chnk_id_curr = @ + 1,
        !.chnk_id_file = @ + 1]

\* the state of the handler after it serviced chunk chnk_id_file and submitted
\* the tasklet; sbuf is the server buffer after the transfer (if any)
Serviced(s, w, sbuf) ==
    [s EXCEPT
        !.sbuf = sbuf,
        !.tasks = Append(@, NewTask(s, w)),
        !.transfer_size = w.transfer_size,
        !.chnk_ptr = @ + w.size,
        !.chnk_size_left_host = @ - w.size,
        !.chnk_id_curr = @ + 1,
        !.chnk_id_file = @ + 1]

\* one iteration of the chunk walk that skips a chunk of another daemon
SrvSkip(d) ==
    /\ srv[d].pc = "walk"
    /\ WalkMore(srv[d])
    /\ ~WalkHit(srv[d])
    /\ srv' = [srv EXCEPT ![d].chnk_id_file = @ + 1]
    /\ UNCHANGED <<hash, names, client, store, hist, faults, dirs, trunc>>

\* one iteration of the write handler's walk: pull the chunk, submit its tasklet
SrvWalkWrite(d) ==
    /\ srv[d].pc = "walk"
    /\ srv[d].in.op = "write"
    /\ WalkMore(srv[d])
    /\ WalkHit(srv[d])
    /\ LET s == srv[d]
           w == WalkCalc(s)
       IN  /\ ClientBulk(s.in.bulk_handle) = "created"
           /\ TransferFits(s.in, w.origin_offset, w.local_offset, w.size)
           /\ srv' = [srv EXCEPT ![d] =
                  Serviced(s, w, Paste(s.sbuf, w.local_offset,
                                       Slice(client.buf, w.origin_offset, w.size)))]
    /\ UNCHANGED <<hash, names, client, store, hist, faults, dirs, trunc>>

\* one iteration of the read handler's walk: submit the read tasklet
SrvWalkRead(d) ==
    /\ srv[d].pc = "walk"
    /\ srv[d].in.op = "read"
    /\ WalkMore(srv[d])
    /\ WalkHit(srv[d])
    /\ srv' = [srv EXCEPT ![d] = Serviced(srv[d], WalkCalc(srv[d]), srv[d].sbuf)]
    /\ UNCHANGED <<hash, names, client, store, hist, faults, dirs, trunc>>

\* ------------------------------------------------------------ daemon: tasklets
SetTask(s, k, res) ==
    [s EXCEPT !.tasks[k].state = "done", !.tasks[k].res = res]

\* a write tasklet runs to completion: write_chunk of its slice of the buffer
WriteTaskRun(d, k) ==
    /\ k \in 1 .. Len(srv[d].tasks)
    /\ srv[d].in.op = "write"
    /\ srv[d].tasks[k].state = "pending"
    /\ srv[d].bulk_handle = "created"
    /\ \E sched \in IoScheds :
          LET t == srv[d].tasks[k]
              w == write_chunk(store[d][t.chnk_id],
                               Slice(srv[d].sbuf, t.buf_off, t.size), t.size, t.offset,
                               sched)
          IN  /\ store' = [store EXCEPT ![d][t.chnk_id] = w.file]
              /\ dirs' = [dirs EXCEPT ![d] = init_chunk_space(@)]
              /\ srv' = [srv EXCEPT ![d] = SetTask(@, k, w.ret)]
    /\ UNCHANGED <<hash, names, client, hist, faults, trunc>>

\* a read tasklet runs to completion: read_chunk into its slice of the buffer;
\* an exception of the chunk store is reported as the negated errno
ReadTaskRun(d, k) ==
    /\ k \in 1 .. Len(srv[d].tasks)
    /\ srv[d].in.op = "read"
    /\ srv[d].tasks[k].state = "pending"
    /\ \E sched \in IoScheds :
          LET t == srv[d].tasks[k]
              r == read_chunk(store[d][t.chnk_id], t.size, t.offset, sched)
          IN  srv' = [srv EXCEPT ![d] =
                   [SetTask(@, k, IF r.err # 0 THEN 0 - r.err ELSE r.ret)
                       EXCEPT !.sbuf = Paste(@, t.buf_off, r.data)]]
    /\ UNCHANGED <<hash, names, client, store, hist, faults, dirs, trunc>>

\* ------------------------------------------------------------ daemon: join and respond
\* ChunkWriteOperation::wait_for_tasks: the errno of the first failed task in
\* submission order (0 if none), and the sum of the sizes of the successful ones
RECURSIVE FirstErr(_)
FirstErr(tasks) ==
    IF tasks = <<>> THEN 0
    ELSE IF Head(tasks).res < 0 THEN 0 - Head(tasks).res
    ELSE FirstErr(Tail(tasks))

RECURSIVE SumOk(_)
SumOk(tasks) ==
    IF tasks = <<>> THEN 0
    ELSE (IF Head(tasks).res > 0 THEN Head(tasks).res ELSE 0) + SumOk(Tail(tasks))

wait_for_tasks(tasks) == [err |-> FirstErr(tasks), io_size |-> SumOk(tasks)]

\* ChunkReadOperation::wait_for_tasks_and_push_back: in submission order, a task
\* that found no chunk file (ENOENT) or read 0 bytes is skipped, another error is
\* kept, and the bytes of a successful task are pushed to the client's buffer at
\* the task's origin offset; `bad` is the task whose push fails (0: none)
RECURSIVE PushBack(_, _, _, _, _)
PushBack(s, idx, bad, cb_ok, acc) ==
    IF idx > Len(s.tasks) THEN acc
    ELSE LET t == s.tasks[idx]
             fits == TransferFits(s.in, t.origin_offset, t.local_offset, t.res)
             next ==
                IF t.res < 0
                THEN IF 0 - t.res = ENOENT THEN acc
                     ELSE [acc EXCEPT !.err = IF @ = 0 THEN 0 - t.res ELSE @]
                ELSE IF t.res = 0 THEN acc
                ELSE IF idx = bad \/ ~cb_ok \/ ~fits
                THEN [acc EXCEPT !.err = IF @ = 0 THEN EBUSY ELSE @]
                ELSE [acc EXCEPT
                        !.io_size = @ + t.res,
                        !.cbuf = Paste(@, t.origin_offset,
                                       Slice(s.sbuf, t.local_offset, t.res))]
         IN  PushBack(s, idx + 1, bad, cb_ok, next)

wait_for_tasks_and_push_back(s, bad, cb_ok, cbuf) ==
    PushBack(s, 1, bad, cb_ok, [err |-> 0, io_size |-> 0, cbuf |-> cbuf])

\* gkfs::rpc::cleanup_respond: send `out`, then free the bulk handle (when a
\* handle pointer is passed and the handle was created), free the input and
\* destroy the RPC handle
cleanup_respond(s, out, bulk_ptr) ==
    [s EXCEPT
        !.pc = "done",
        !.out = out,
        !.responded = @ + 1,
        !.bulk_handle = IF bulk_ptr /\ @ = "created" THEN "freed" ELSE @,
        !.in_freed = TRUE,
        !.handle_destroyed = TRUE]

WalkOver(s) == s.pc = "walk" /\ ~WalkMore(s)

\* the sizes of the tasks that precede the first failed one
RECURSIVE SumUntilError(_)
SumUntilError(tasks) ==
    IF tasks = <<>> \/ Head(tasks).res < 0 THEN 0
    ELSE Head(tasks).res + SumUntilError(Tail(tasks))

\* a write handler that stops adding sizes at the first failed task
WriteOut_until_first_error(s) ==
    [err |-> wait_for_tasks(s.tasks).err, io_size |-> SumUntilError(s.tasks)]

\* a write handler that reports the requested size instead of the tasks' result
WriteOut_requested_size(s) ==
    [err |-> wait_for_tasks(s.tasks).err, io_size |-> s.in.total_chunk_size]

\* out.err and out.io_size of the write handler after the join
WriteOut(s) ==
    LET write_result == wait_for_tasks(s.tasks)
    IN  [err |-> write_result.err, io_size |-> write_result.io_size]

\* rpc_srv_write, steps 4 and 5
SrvJoinWrite(d) ==
    /\ WalkOver(srv[d])
    /\ srv[d].in.op = "write"
    /\ TasksDone(srv[d])
    /\ srv' = [srv EXCEPT ![d] = cleanup_respond(@, WriteOut(srv[d]), TRUE)]
    /\ UNCHANGED <<hash, names, client, store, hist, faults, dirs, trunc>>

\* rpc_srv_read, steps 4 and 5
SrvJoinRead(d) ==
    /\ WalkOver(srv[d])
    /\ srv[d].in.op = "read"
    /\ srv[d].chnk_size_left_host # srv[d].in.total_chunk_size
    /\ TasksDone(srv[d])
    /\ LET cb_ok == ClientBulk(srv[d].in.bulk_handle) = "created"
           read_result == wait_for_tasks_and_push_back(srv[d], 0, cb_ok, client.buf)
       IN  /\ srv' = [srv EXCEPT ![d] =
                cleanup_respond(@, [err |-> read_result.err,
                                    io_size |-> read_result.io_size], TRUE)]
           /\ client' = [client EXCEPT !.buf = read_result.cbuf]
    /\ UNCHANGED <<hash, names, store, hist, faults, dirs, trunc>>

\* ------------------------------------------------------------ failures: client
UseFault == faults > 0 /\ faults' = faults - 1

\* what a call that returns -1 before its join loop leaves behind
ClientAbort(c, rpc_bulk, ipc_bulk) ==
    [c EXCEPT !.pc = "done", !.errno = EBUSY, !.ret = 0 - 1,
              !.rpc_bulk_handle = rpc_bulk, !.ipc_bulk_handle = ipc_bulk]

HistOf(c) ==
    IF c.op = "write"
    THEN [offset |-> c.offset, size |-> c.size, buf |-> c.buf, ret |-> c.ret,
          errno |-> c.errno]
    ELSE hist

\* the first (rpc) or the second (ipc) margo_bulk_create fails: return -1
ClientBulkCreateFail ==
    /\ ClientCanStart
    /\ client.calls = 0
    /\ UseFault
    /\ \E offset \in 0 .. MaxOffset, write_size \in 1 .. MaxSize, second \in BOOLEAN :
          LET c == ClientAbort(ClientSetup("write", offset, write_size,
                                           WriteData(write_size)),
                               IF second THEN "created" ELSE "null", "null")
          IN  client' = c /\ hist' = HistOf(c)
    /\ srv' = [d \in Hosts |-> IdleSrv]
    /\ UNCHANGED <<hash, names, store, dirs, trunc>>

\* margo_iforward fails for targets[i]: the handles 0..i are destroyed, both bulk
\* handles are freed and the call returns -1; RPCs already issued stay in flight
ClientForwardFail ==
    /\ client.pc = "fanout"
    /\ client.i < TargetN(client)
    /\ UseFault
    /\ LET c == ClientAbort(
                  [client EXCEPT !.rpc_handles =
                      [j \in 1 .. TargetN(client) |->
                          IF j <= client.i + 1
                          THEN [client.rpc_handles[j] EXCEPT !.destroyed = @ + 1]
                          ELSE client.rpc_handles[j]]],
                  "freed", "freed")
       IN  client' = c /\ hist' = HistOf(c)
    /\ UNCHANGED <<hash, names, srv, store, dirs, trunc>>

\* margo_wait fails for handle i (the response never arrives): no output
ClientWaitFail ==
    /\ client.pc = "join"
    /\ client.i < TargetN(client)
    /\ UseFault
    /\ client' = JoinStep(client, FALSE, FALSE, [err |-> 0, io_size |-> 0])
    /\ UNCHANGED <<hash, names, srv, store, hist, dirs, trunc>>

\* margo_wait succeeds but margo_get_output fails for handle i
ClientGetOutputFail ==
    /\ client.pc = "join"
    /\ client.i < TargetN(client)
    /\ srv[client.targets[client.i + 1]].responded > 0
    /\ UseFault
    /\ client' = JoinStep(client, TRUE, FALSE, [err |-> 0, io_size |-> 0])
    /\ UNCHANGED <<hash, names, srv, store, hist, dirs, trunc>>

\* ------------------------------------------------------------ failures: daemon
\* a default output that reports success
DefaultOut_success == [err |-> 0, io_size |-> 0]

\* the output the handlers prepare before anything can fail
DefaultOut == [err |-> EIO, io_size |-> 0]

\* margo_get_input fails
SrvDecodeFail(d) ==
    /\ srv[d].pc = "pending"
    /\ UseFault
    /\ srv' = [srv EXCEPT ![d] = cleanup_respond(@, DefaultOut, TRUE)]
    /\ UNCHANGED <<hash, names, client, store, hist, dirs, trunc>>

\* margo_bulk_create fails: cleanup_respond without a bulk handle
SrvBulkCreateFail(d) ==
    /\ srv[d].pc = "pending"
    /\ UseFault
    /\ srv' = [srv EXCEPT ![d] = cleanup_respond(@, DefaultOut, FALSE)]
    /\ UNCHANGED <<hash, names, client, store, hist, dirs, trunc>>

\* margo_bulk_access fails on the created handle
SrvBulkAccessFail(d) ==
    /\ srv[d].pc = "pending"
    /\ UseFault
    /\ srv' = [srv EXCEPT ![d] =
            cleanup_respond([@ EXCEPT !.bulk_handle = "created"], DefaultOut, TRUE)]
    /\ UNCHANGED <<hash, names, client, store, hist, dirs, trunc>>

WriteHit(d) ==
    /\ srv[d].pc = "walk"
    /\ srv[d].in.op = "write"
    /\ WalkMore(srv[d])
    /\ WalkHit(srv[d])

PullPossible(s) ==
    LET w == WalkCalc(s)
    IN  /\ ClientBulk(s.in.bulk_handle) = "created"
        /\ TransferFits(s.in, w.origin_offset, w.local_offset, w.size)

BusyOut == [err |-> EBUSY, io_size |-> 0]

\* a handler that notes the failed pull and goes on to the next chunk
SrvPullFail_keeps_walking(d) ==
    /\ WriteHit(d)
    /\ PullPossible(srv[d])
    /\ UseFault
    /\ srv' = [srv EXCEPT ![d] = [@ EXCEPT !.out = BusyOut,
                                            !.chnk_id_file = @ + 1,
                                            !.chnk_id_curr = @ + 1]]
    /\ UNCHANGED <<hash, names, client, store, hist, dirs, trunc>>

\* the pull bulk transfer of the walk fails: respond EBUSY and return at once
SrvPullFail(d) ==
    /\ WriteHit(d)
    /\ PullPossible(srv[d])
    /\ UseFault
    /\ srv' = [srv EXCEPT ![d] = cleanup_respond(@, BusyOut, TRUE)]
    /\ UNCHANGED <<hash, names, client, store, hist, dirs, trunc>>

\* the transport refuses a pull from a registration the client has freed, or
\* one that runs outside the registered regions
SrvPullRejected(d) ==
    /\ WriteHit(d)
    /\ ~PullPossible(srv[d])
    /\ srv' = [srv EXCEPT ![d] = cleanup_respond(@, BusyOut, TRUE)]
    /\ UNCHANGED <<hash, names, client, store, hist, faults, dirs, trunc>>

\* a pull from a registration the client has freed that the transport still
\* serves: the bytes are whatever the memory holds by then
SrvPullStale(d) ==
    /\ WriteHit(d)
    /\ ClientBulk(srv[d].in.bulk_handle) = "freed"
    /\ LET s == srv[d]
           w == WalkCalc(s)
       IN  /\ TransferFits(s.in, w.origin_offset, w.local_offset, w.size)
           /\ srv' = [srv EXCEPT ![d] =
                  Serviced(s, w, Paste(s.sbuf, w.local_offset,
                                       [k \in 1 .. w.size |-> GARBAGE]))]
    /\ UNCHANGED <<hash, names, client, store, hist, faults, dirs, trunc>>

\* write_nonblock / read_nonblock throws after the chunk was prepared: respond
\* with the default output and return at once
SrvSubmitFail(d) ==
    /\ srv[d].pc = "walk"
    /\ WalkMore(srv[d])
    /\ WalkHit(srv[d])
    /\ srv[d].in.op = "write" => PullPossible(srv[d])
    /\ UseFault
    /\ srv' = [srv EXCEPT ![d] = cleanup_respond(@, DefaultOut, TRUE)]
    /\ UNCHANGED <<hash, names, client, store, hist, dirs, trunc>>

\* a write tasklet one of whose pwrite calls fails with ENOSPC: what the calls
\* before it wrote stays in the file
WriteTaskFail(d, k) ==
    /\ k \in 1 .. Len(srv[d].tasks)
    /\ srv[d].in.op = "write"
    /\ srv[d].tasks[k].state = "pending"
    /\ UseFault
    /\ \E sched \in FatalScheds :
          LET t == srv[d].tasks[k]
              w == write_chunk(store[d][t.chnk_id],
                               Slice(srv[d].sbuf, t.buf_off, t.size), t.size, t.offset,
                               sched)
          IN  /\ w.err # 0
              /\ store' = [store EXCEPT ![d][t.chnk_id] = w.file]
              /\ dirs' = [dirs EXCEPT ![d] = init_chunk_space(@)]
              /\ srv' = [srv EXCEPT ![d] = SetTask(@, k, 0 - w.err)]
    /\ UNCHANGED <<hash, names, client, hist, trunc>>

\* a read tasklet one of whose pread calls fails with EIO: what the calls
\* before it read is in the buffer
ReadTaskFail(d, k) ==
    /\ k \in 1 .. Len(srv[d].tasks)
    /\ srv[d].in.op = "read"
    /\ srv[d].tasks[k].state = "pending"
    /\ store[d][srv[d].tasks[k].chnk_id].exists
    /\ UseFault
    /\ \E sched \in FatalScheds :
          LET t == srv[d].tasks[k]
              r == read_chunk(store[d][t.chnk_id], t.size, t.offset, sched)
          IN  /\ r.err # 0
              /\ srv' = [srv EXCEPT ![d] =
                     [SetTask(@, k, 0 - r.err)
                         EXCEPT !.sbuf = Paste(@, t.buf_off, r.data)]]
    /\ UNCHANGED <<hash, names, client, store, hist, dirs, trunc>>

\* a write tasklet that runs after the handler returned and freed the buffer:
\* it writes what the freed memory holds, the old bytes or anything else
WriteTaskRunFreed(d, k) ==
    /\ k \in 1 .. Len(srv[d].tasks)
    /\ srv[d].in.op = "write"
    /\ srv[d].tasks[k].state = "pending"
    /\ srv[d].bulk_handle = "freed"
    /\ \E intact \in BOOLEAN :
          LET t == srv[d].tasks[k]
              b == IF intact THEN Slice(srv[d].sbuf, t.buf_off, t.size)
                   ELSE [j \in 1 .. t.size |-> GARBAGE]
              w == write_chunk(store[d][t.chnk_id], b, t.size, t.offset, <<>>)
          IN  /\ store' = [store EXCEPT ![d][t.chnk_id] = w.file]
              /\ dirs' = [dirs EXCEPT ![d] = init_chunk_space(@)]
              /\ srv' = [srv EXCEPT ![d] = SetTask(@, k, w.ret)]
    /\ UNCHANGED <<hash, names, client, hist, faults, trunc>>

\* rpc_srv_read, steps 4 and 5, when the push of one chunk fails
SrvJoinReadPushFail(d) ==
    /\ WalkOver(srv[d])
    /\ srv[d].in.op = "read"
    /\ srv[d].chnk_size_left_host # srv[d].in.total_chunk_size
    /\ TasksDone(srv[d])
    /\ UseFault
    /\ \E bad \in 1 .. Len(srv[d].tasks) :
          /\ srv[d].tasks[bad].res > 0
          /\ LET cb_ok == ClientBulk(srv[d].in.bulk_handle) = "created"
                 read_result ==
                    wait_for_tasks_and_push_back(srv[d], bad, cb_ok, client.buf)
             IN  /\ srv' = [srv EXCEPT ![d] =
                        cleanup_respond(@, [err |-> read_result.err,
                                            io_size |-> read_result.io_size], TRUE)]
                 /\ client' = [client EXCEPT !.buf = read_result.cbuf]
    /\ UNCHANGED <<hash, names, store, hist, dirs, trunc>>

\* ------------------------------------------------------------ specification
DaemonWrite(d) ==
    \/ SrvBegin(d)
    \/ SrvSkip(d)
    \/ SrvWalkWrite(d)
    \/ \E k \in 1 .. (MaxChunk + 1) : WriteTaskRun(d, k)
    \/ SrvJoinWrite(d)

DaemonRead(d) ==
    \/ SrvWalkRead(d)
    \/ \E k \in 1 .. (MaxChunk + 1) : ReadTaskRun(d, k)
    \/ SrvJoinRead(d)

Daemon(d) == DaemonWrite(d) \/ DaemonRead(d)

Next ==
    \/ rpc_send_write
    \/ rpc_send_read
    \/ ClientForward
    \/ ClientJoin
    \/ ClientFinish
    \/ \E d \in Hosts : Daemon(d)

Spec == Init /\ [][Next]_vars

\* the same system with up to MaxFaults injected failures; the read follows a
\* write that succeeded and reads the byte range that was written
rpc_send_read_back ==
    /\ ClientCanStart
    /\ client.calls = 1
    /\ hist.size > 0 /\ hist.ret = hist.size /\ hist.errno = 0
    /\ client' = ClientSetup("read", hist.offset, hist.size, Zeros(hist.size))
    /\ srv' = [d \in Hosts |-> IdleSrv]
    /\ UNCHANGED <<hash, names, store, hist, faults, dirs, trunc>>

DaemonFaults(d) ==
    \/ SrvDecodeFail(d)
    \/ SrvBulkCreateFail(d)
    \/ SrvBulkAccessFail(d)
    \/ SrvPullFail(d)
    \/ SrvPullRejected(d)
    \/ SrvPullStale(d)
    \/ SrvSubmitFail(d)
    \/ \E k \in 1 .. (MaxChunk + 1) : WriteTaskFail(d, k)
    \/ \E k \in 1 .. (MaxChunk + 1) : ReadTaskFail(d, k)
    \/ \E k \in 1 .. (MaxChunk + 1) : WriteTaskRunFreed(d, k)
    \/ SrvJoinReadPushFail(d)

NextFaults ==
    \/ rpc_send_write
    \/ rpc_send_read_back
    \/ ClientForward
    \/ ClientJoin
    \/ ClientFinish
    \/ ClientBulkCreateFail
    \/ ClientForwardFail
    \/ ClientWaitFail
    \/ ClientGetOutputFail
    \/ \E d \in Hosts : Daemon(d)
    \/ \E d \in Hosts : DaemonFaults(d)

InitFaults == InitCommon /\ faults = MaxFaults

SpecFaults == InitFaults /\ [][NextFaults]_vars

\* the same system, where a daemon may also be sent an RPC whose bitmap names
\* none of the chunks of its range (a request of another client)
ForeignRpc(d) ==
    /\ client.pc = "idle"
    /\ \A e \in Hosts : srv[e].pc = "idle"
    /\ \E op \in {"write", "read"}, chunk_start \in ChunkIds, chunk_end \in ChunkIds,
          chunk_n \in 0 .. 1, total_chunk_size \in 1 .. CHUNKSIZE :
          /\ chunk_start <= chunk_end
          /\ srv' = [srv EXCEPT ![d] = [IdleSrv EXCEPT
                !.pc = "pending",
                !.in = [op |-> op, offset |-> 0, chunk_n |-> chunk_n,
                        chunk_start |-> chunk_start, chunk_end |-> chunk_end,
                        total_chunk_size |-> total_chunk_size,
                        bulk_handle |-> "foreign", bulk_size |-> total_chunk_size,
                        wbitset |-> [k \in 0 .. (chunk_end - chunk_start) |-> FALSE]]]]
    /\ UNCHANGED <<hash, names, client, store, hist, faults, dirs, trunc>>

\* rpc_srv_read returns HG_CANCELED when the walk assigned no byte: no response
\* is sent and nothing is released
SrvCancel(d) ==
    /\ WalkOver(srv[d])
    /\ srv[d].in.op = "read"
    /\ srv[d].chnk_size_left_host = srv[d].in.total_chunk_size
    /\ srv' = [srv EXCEPT ![d] = [@ EXCEPT !.pc = "done", !.canceled = TRUE]]
    /\ UNCHANGED <<hash, names, client, store, hist, faults, dirs, trunc>>

NextHandler ==
    \/ NextFaults
    \/ \E d \in Hosts : ForeignRpc(d)
    \/ \E d \in Hosts : SrvCancel(d)

SpecHandler == InitFaults /\ [][NextHandler]_vars

\* ------------------------------------------------------------ truncate: chunk store
\* the chunk files trim_chunk_space finds in the directory and must remove
TrimSet(files, chunk_start) == {c \in ChunkIds : files[c].exists /\ c >= chunk_start}

\* trim_chunk_space that removes only the chunks above chunk_start
trim_chunk_space_exclusive(files, dir, chunk_start, failing, enoent) ==
    IF ~dir THEN [files |-> files, err |-> ENOENT]
    ELSE [files |-> [c \in ChunkIds |->
                        IF c \in TrimSet(files, chunk_start + 1) \ failing
                        THEN NoFile ELSE files[c]],
          err   |-> IF TrimSet(files, chunk_start + 1) \cap failing # {} THEN EIO ELSE 0]

\* trim_chunk_space whose walk misses the entry that follows a removed one
trim_chunk_space_skips_after_unlink(files, dir, chunk_start, failing, enoent) ==
    IF ~dir THEN [files |-> files, err |-> ENOENT]
    ELSE LET todo    == TrimSet(files, chunk_start)
             rank(c) == Cardinality({b \in todo : b < c})
             seen    == {c \in todo : rank(c) % 2 = 0}
         IN  [files |-> [c \in ChunkIds |->
                            IF c \in seen \ failing THEN NoFile ELSE files[c]],
              err   |-> IF seen \cap failing # {} THEN EIO ELSE 0]

\* trim_chunk_space that gives up when an unlink reports ENOENT
trim_chunk_space_enoent_is_error(files, dir, chunk_start, failing, enoent) ==
    IF ~dir THEN [files |-> files, err |-> ENOENT]
    ELSE LET todo == TrimSet(files, chunk_start)
         IN  [files |-> [c \in ChunkIds |->
                            IF c \in todo \ failing THEN NoFile ELSE files[c]],
              err   |-> IF todo \cap (failing \cup enoent) # {} THEN EIO ELSE 0]

\* ChunkStorage::trim_chunk_space on the chunk files of one daemon: every entry
\* of the directory with id >= chunk_start is unlinked.  `failing` are the ids
\* whose unlink fails with an errno other than ENOENT (the file stays), `enoent`
\* the ids whose unlink reports ENOENT (the file is gone by then).  A missing
\* directory makes the directory iterator throw.  err is the errno of the
\* exception thrown (0: none).
trim_chunk_space(files, dir, chunk_start, failing, enoent) ==
    IF ~dir THEN [files |-> files, err |-> ENOENT]
    ELSE LET todo == TrimSet(files, chunk_start)
         IN  [files |-> [c \in ChunkIds |->
                            IF c \in todo \ failing THEN NoFile ELSE files[c]],
              err   |-> IF todo \cap failing # {} THEN EIO ELSE 0]

\* truncate_chunk_file that never shortens a file
truncate_chunk_file_no_shrink(file, length, ok) ==
    IF ~file.exists THEN [file |-> file, err |-> ENOENT]
    ELSE IF ~ok THEN [file |-> file, err |-> EIO]
    ELSE [file |-> [exists |-> TRUE,
                    data   |-> [k \in 1 .. Max(length, Len(file.data)) |->
                                   IF k <= Len(file.data) THEN file.data[k] ELSE 0]],
          err  |-> 0]

\* ChunkStorage::truncate_chunk_file: truncate(2) of the chunk file to length
\* (bytes past the old end read as 0); a failing truncate throws its errno
truncate_chunk_file(file, length, ok) ==
    IF ~file.exists THEN [file |-> file, err |-> ENOENT]
    ELSE IF ~ok THEN [file |-> file, err |-> EIO]
    ELSE [file |-> [exists |-> TRUE,
                    data   |-> [k \in 1 .. length |->
                                   IF k <= Len(file.data) THEN file.data[k] ELSE 0]],
          err  |-> 0]

\* ------------------------------------------------------------ truncate: handler
\* the first chunk id that lies wholly beyond `length`
TruncChunkStart(length) == (length + CHUNKSIZE - 1) \div CHUNKSIZE

TruncSent(length) ==
    [d \in Hosts |-> [IdleTrunc EXCEPT !.pc = "pending", !.length = length]]

\* the client truncates the file to `length` between two of its calls: every
\* daemon is sent a truncate RPC
TruncateQuiet ==
    /\ ClientCanStart
    /\ client.calls = 1
    /\ client.op = "write"
    /\ \A d \in Hosts : trunc[d].pc = "idle"
    /\ \E length \in 0 .. MaxSize : trunc' = TruncSent(length)
    /\ UNCHANGED <<hash, names, client, srv, store, hist, faults, dirs>>

\* the client repeats its truncate once, with the same length
TruncateAgain ==
    /\ ClientCanStart
    /\ client.calls = 1
    /\ \A d \in Hosts : trunc[d].pc = "done" /\ ~trunc[d].again
    /\ trunc' = [d \in Hosts |->
                    [TruncSent(trunc[d].length)[d] EXCEPT !.failing = trunc[d].failing,
                                                          !.trims = trunc[d].trims,
                                                          !.again = TRUE]]
    /\ UNCHANGED <<hash, names, client, srv, store, hist, faults, dirs>>

\* a truncate RPC reaches a daemon that is serving a write RPC for the file
TruncateAnytime ==
    /\ client.calls = 1
    /\ client.op = "write"
    /\ \A d \in Hosts : trunc[d].pc = "idle"
    /\ \E d \in Hosts : \E length \in 0 .. MaxSize :
          /\ srv[d].pc \notin {"idle", "done"}
          /\ trunc' = [trunc EXCEPT ![d] = TruncSent(length)[d]]
    /\ UNCHANGED <<hash, names, client, srv, store, hist, faults, dirs>>

\* cleanup_respond of the truncate handler: send err, free input, destroy handle
TruncRespondWith(t, err) ==
    [t EXCEPT !.pc = "done", !.out = err, !.responded = @ + 1]

\* rpc_srv_truncate up to the submission of the truncate tasklet
TruncBegin(d) ==
    /\ trunc[d].pc = "pending"
    /\ trunc' = [trunc EXCEPT ![d] = [@ EXCEPT !.pc = "task", !.out = EIO]]
    /\ UNCHANGED <<hash, names, client, srv, store, hist, faults, dirs>>

\* margo_get_input fails, or chunk_op.truncate throws: respond with EIO
TruncSetupFail(d) ==
    /\ trunc[d].pc = "pending"
    /\ UseFault
    /\ trunc' = [trunc EXCEPT ![d] = TruncRespondWith(@, EIO)]
    /\ UNCHANGED <<hash, names, client, srv, store, hist, dirs>>

\* the truncate tasklet after trim_chunk_space returned r: an exception ends
\* the tasklet, and so does a length that is a multiple of CHUNKSIZE
Trimmed(t, r, failing) ==
    [t EXCEPT !.err = r.err,
              !.failing = failing,
              !.trims = Append(@, r.err),
              !.pc = IF r.err # 0 \/ t.length % CHUNKSIZE = 0 THEN "ran" ELSE "trimmed"]

\* truncate tasklet, first half: trim_chunk_space(path, chunk_start); a file
\* that could not be unlinked before cannot be unlinked now
TruncTrim(d) ==
    /\ trunc[d].pc = "task"
    /\ \E enoent \in {{}} \cup {{c} : c \in ChunkIds} :
          LET r == trim_chunk_space(store[d], dirs[d],
                                    TruncChunkStart(trunc[d].length),
                                    trunc[d].failing, enoent)
          IN  /\ store' = [store EXCEPT ![d] = r.files]
              /\ trunc' = [trunc EXCEPT ![d] = Trimmed(@, r, trunc[d].failing)]
    /\ UNCHANGED <<hash, names, client, srv, hist, faults, dirs>>

\* the same when the unlink of some chunk files fails with an errno other than
\* ENOENT
TruncTrimFail(d) ==
    /\ trunc[d].pc = "task"
    /\ trunc[d].failing = {}
    /\ dirs[d]
    /\ UseFault
    /\ \E failing \in (SUBSET TrimSet(store[d], TruncChunkStart(trunc[d].length))) \ {{}} :
          LET r == trim_chunk_space(store[d], dirs[d],
                                    TruncChunkStart(trunc[d].length), failing, {})
          IN  /\ store' = [store EXCEPT ![d] = r.files]
              /\ trunc' = [trunc EXCEPT ![d] = Trimmed(@, r, failing)]
    /\ UNCHANGED <<hash, names, client, srv, hist, dirs>>

\* what the second half of the tasklet leaves behind
Cut(t, r) == [t EXCEPT !.err = r.err, !.pc = "ran"]

\* truncate tasklet, second half:
\* truncate_chunk_file(path, chunk_start - 1, length mod CHUNKSIZE)
TruncCut(d) ==
    /\ trunc[d].pc = "trimmed"
    /\ LET c == TruncChunkStart(trunc[d].length) - 1
           r == truncate_chunk_file(store[d][c], trunc[d].length % CHUNKSIZE, TRUE)
       IN  /\ store' = [store EXCEPT ![d][c] = r.file]
           /\ trunc' = [trunc EXCEPT ![d] = Cut(@, r)]
    /\ UNCHANGED <<hash, names, client, srv, hist, faults, dirs>>

\* the same when truncate(2) fails on the existing chunk file
TruncCutFail(d) ==
    /\ trunc[d].pc = "trimmed"
    /\ store[d][TruncChunkStart(trunc[d].length) - 1].exists
    /\ UseFault
    /\ LET c == TruncChunkStart(trunc[d].length) - 1
           r == truncate_chunk_file(store[d][c], trunc[d].length % CHUNKSIZE, FALSE)
       IN  /\ store' = [store EXCEPT ![d][c] = r.file]
           /\ trunc' = [trunc EXCEPT ![d] = Cut(@, r)]
    /\ UNCHANGED <<hash, names, client, srv, hist, dirs>>

\* rpc_srv_truncate: out.err = chunk_op.wait_for_task(), then cleanup_respond
TruncRespond(d) ==
    /\ trunc[d].pc = "ran"
    /\ trunc' = [trunc EXCEPT ![d] = TruncRespondWith(@, trunc[d].err)]
    /\ UNCHANGED <<hash, names, client, srv, store, hist, faults, dirs>>

\* rpc_srv_truncate when no call fails
TruncRun(d) ==
    \/ TruncBegin(d)
    \/ TruncTrim(d)
    \/ TruncCut(d)
    \/ TruncRespond(d)

\* the failures rpc_srv_truncate and its tasklet handle
TruncFault(d) ==
    \/ TruncSetupFail(d)
    \/ TruncTrimFail(d)
    \/ TruncCutFail(d)

rpc_srv_truncate(d) == TruncRun(d) \/ TruncFault(d)

TruncDone == \A d \in Hosts : trunc[d].pc = "done"

\* a client read of the head of the file after the truncate has been answered
rpc_send_read_head ==
    /\ ClientCanStart
    /\ client.calls = 1
    /\ TruncDone
    /\ \E read_size \in 1 .. MaxSize :
          client' = ClientSetup("read", 0, read_size, Zeros(read_size))
    /\ srv' = [d \in Hosts |-> IdleSrv]
    /\ UNCHANGED <<hash, names, store, hist, faults, dirs, trunc>>

\* a write, then a truncate that does not overlap it, in which calls may fail
\* and which the client may repeat
NextTrunc ==
    \/ rpc_send_write
    \/ ClientForward
    \/ ClientJoin
    \/ ClientFinish
    \/ \E d \in Hosts : DaemonWrite(d)
    \/ TruncateQuiet
    \/ TruncateAgain
    \/ \E d \in Hosts : rpc_srv_truncate(d)

SpecTrunc == InitFaults /\ [][NextTrunc]_vars

\* write, then truncate, then read the head of the file; no call fails
NextTruncRead ==
    \/ rpc_send_write
    \/ ClientForward
    \/ ClientJoin
    \/ ClientFinish
    \/ \E d \in Hosts : Daemon(d)
    \/ TruncateQuiet
    \/ \E d \in Hosts : TruncRun(d)
    \/ rpc_send_read_head

SpecTruncRead == Init /\ [][NextTruncRead]_vars

\* a write and a truncate of the same file that run at the same time
NextRace ==
    \/ rpc_send_write
    \/ ClientForward
    \/ ClientJoin
    \/ ClientFinish
    \/ \E d \in Hosts : DaemonWrite(d)
    \/ TruncateAnytime
    \/ \E d \in Hosts : TruncRun(d)

SpecRace == Init /\ [][NextRace]_vars

\* ------------------------------------------------------------ writes of zero bytes
\* rpc_send_write called with write_size = 0 at a positive offset, as the first
\* or the second call of the client; `created` tells whether margo_bulk_create
\* accepts a region of zero bytes
rpc_send_write_empty ==
    /\ ClientCanStart
    /\ client.calls <= 1
    /\ \E in_offset \in 1 .. MaxOffset, created \in BOOLEAN :
          LET c == ClientSetup("write", in_offset, 0, <<>>)
          IN  client' = IF created THEN c ELSE ClientAbort(c, "null", "null")
    /\ srv' = [d \in Hosts |-> IdleSrv]
    /\ UNCHANGED <<hash, names, store, hist, faults, dirs, trunc>>

NextEmpty ==
    \/ rpc_send_write
    \/ rpc_send_write_empty
    \/ ClientForward
    \/ ClientJoin
    \/ ClientFinish
    \/ \E d \in Hosts : DaemonWrite(d)
    \/ \E d \in Hosts : SrvBulkCreateFail(d)

SpecEmpty == InitFaults /\ [][NextEmpty]_vars

\* ------------------------------------------------------------ write_chunk, call by call
\* mkdir(chunk_dir, 0750): the directory exists afterwards; the call fails with
\* EEXIST when it existed before
mkdir(dir) == [dir |-> TRUE, errno |-> IF dir THEN EEXIST ELSE 0]

\* an init_chunk_space that throws on every failure of mkdir
init_chunk_space_throws_any(made) == made.errno

\* the errno of the exception init_chunk_space throws after mkdir (0: none):
\* a failure other than EEXIST
init_chunk_space_throws(made) ==
    IF made.errno # 0 /\ made.errno # EEXIST THEN made.errno ELSE 0

\* a write tasklet enters write_chunk and calls init_chunk_space
WriteChunkMkdir(d, k) ==
    /\ k \in 1 .. Len(srv[d].tasks)
    /\ srv[d].in.op = "write"
    /\ srv[d].tasks[k].state = "pending"
    /\ srv[d].bulk_handle = "created"
    /\ LET made   == mkdir(dirs[d])
           thrown == init_chunk_space_throws(made)
       IN  /\ dirs' = [dirs EXCEPT ![d] = made.dir]
           /\ srv' = [srv EXCEPT ![d] =
                  IF thrown # 0
                  THEN [SetTask(@, k, 0 - thrown) EXCEPT
                           !.tasks[k].mkdir_errno = made.errno]
                  ELSE [@ EXCEPT !.tasks[k].state = "dir",
                                 !.tasks[k].mkdir_errno = made.errno]]
    /\ UNCHANGED <<hash, names, client, store, hist, faults, trunc>>

\* the tasklet opens its chunk file with O_WRONLY | O_CREAT
WriteChunkOpen(d, k) ==
    /\ k \in 1 .. Len(srv[d].tasks)
    /\ srv[d].tasks[k].state = "dir"
    /\ LET t == srv[d].tasks[k]
       IN  store' = [store EXCEPT ![d][t.chnk_id] = OpenCreate(@)]
    /\ srv' = [srv EXCEPT ![d].tasks[k].state = "open"]
    /\ UNCHANGED <<hash, names, client, hist, faults, dirs, trunc>>

\* the tasklet runs the pwrite loop on the open file and completes
WriteChunkWrite(d, k) ==
    /\ k \in 1 .. Len(srv[d].tasks)
    /\ srv[d].tasks[k].state = "open"
    /\ \E sched \in IoScheds :
          LET t == srv[d].tasks[k]
              w == WriteLoop(store[d][t.chnk_id],
                             Slice(srv[d].sbuf, t.buf_off, t.size), t.size, t.offset,
                             0, sched)
          IN  /\ store' = [store EXCEPT ![d][t.chnk_id] = w.file]
              /\ srv' = [srv EXCEPT ![d] = SetTask(@, k, w.ret)]
    /\ UNCHANGED <<hash, names, client, hist, faults, dirs, trunc>>

\* a client write whose tasklets run write_chunk one system call at a time
NextMkdir ==
    \/ rpc_send_write
    \/ ClientForward
    \/ ClientJoin
    \/ ClientFinish
    \/ \E d \in Hosts : SrvBegin(d)
    \/ \E d \in Hosts : SrvSkip(d)
    \/ \E d \in Hosts : SrvWalkWrite(d)
    \/ \E d \in Hosts : SrvJoinWrite(d)
    \/ \E d \in Hosts : \E k \in 1 .. (MaxChunk + 1) : WriteChunkMkdir(d, k)
    \/ \E d \in Hosts : \E k \in 1 .. (MaxChunk + 1) : WriteChunkOpen(d, k)
    \/ \E d \in Hosts : \E k \in 1 .. (MaxChunk + 1) : WriteChunkWrite(d, k)

SpecMkdir == Init /\ [][NextMkdir]_vars

\* ------------------------------------------------------------ a second write
\* the bytes of a second write, different from those of the first
OverData(size) == [k \in 1 .. size |-> MaxSize + k]

\* rpc_send_write called again on the same file after the first write returned
rpc_send_write_over ==
    /\ ClientCanStart
    /\ client.calls = 1
    /\ client.op = "write"
    /\ \E in_offset \in 0 .. MaxOffset, write_size \in 1 .. MaxSize :
          client' = ClientSetup("write", in_offset, write_size, OverData(write_size))
    /\ srv' = [d \in Hosts |-> IdleSrv]
    /\ UNCHANGED <<hash, names, store, hist, faults, dirs, trunc>>

NextRewrite ==
    \/ rpc_send_write
    \/ rpc_send_write_over
    \/ ClientForward
    \/ ClientJoin
    \/ ClientFinish
    \/ \E d \in Hosts : DaemonWrite(d)

SpecRewrite == Init /\ [][NextRewrite]_vars

\* ------------------------------------------------------------ chunk directory names
\* a path is a string, kept as the sequence of its characters
PathChars == {"a", "/", ":"}

Strings(n) == UNION {[1 .. k -> PathChars] : k \in 0 .. n}

\* gkfs::path::is_absolute
is_absolute(path) == Len(path) > 0 /\ path[1] = "/"

\* the paths the client hands to the daemons: absolute, no empty component,
\* no trailing separator (the root is the one-character path)
FilePaths ==
    {p \in Strings(MaxPathLen) :
        /\ is_absolute(p)
        /\ \A k \in 1 .. Len(p) - 1 : ~(p[k] = "/" /\ p[k + 1] = "/")
        /\ Len(p) > 1 => p[Len(p)] # "/"}

\* string::substr(1)
substr1(str) == [k \in 1 .. Len(str) - 1 |-> str[k + 1]]

\* std::replace(first, last, old_value, new_value)
replace(str, old_value, new_value) ==
    [k \in 1 .. Len(str) |-> IF str[k] = old_value THEN new_value ELSE str[k]]

\* ChunkStorage::get_chunks_dir
get_chunks_dir(file_path) == replace(substr1(file_path), "/", ":")

\* the daemon computes the chunk directory name of one more file path
GetChunksDir(file_path) ==
    /\ Cardinality(names) < MaxPaths
    /\ file_path \notin {n.file_path : n \in names}
    /\ names' = names \cup {[file_path |-> file_path,
                             chunk_dir |-> get_chunks_dir(file_path)]}
    /\ UNCHANGED <<hash, client, srv, store, hist, faults, dirs, trunc>>

NextPaths == \E file_path \in FilePaths : GetChunksDir(file_path)

SpecPaths == Init /\ [][NextPaths]_vars

\* ------------------------------------------------------------ properties
\* the bytes of [offset, offset + size) that fall into chunk c
Overlap(c, offset, size) ==
    Min((c + 1) * CHUNKSIZE, offset + size) - Max(c * CHUNKSIZE, offset)

\* where the range [offset, offset + size) starts inside chunk c
IntraOffset(c, offset) == IF c = offset \div CHUNKSIZE THEN offset % CHUNKSIZE ELSE 0

CallChunks == (client.offset \div CHUNKSIZE) .. ((client.offset + client.size - 1) \div CHUNKSIZE)

Returned(op) == client.pc = "done" /\ client.op = op

WriteOk == hist.size > 0 /\ hist.ret = hist.size /\ hist.errno = 0

ReadBack == Returned("read") /\ client.offset = hist.offset /\ client.size = hist.size

\* C1: a client read of the byte range of a successful client write, issued
\* after that write returned, returns the size of the range and fills the read
\* buffer with the bytes that were written, for every placement.
C1_RoundTrip ==
    (ReadBack /\ WriteOk) => (client.ret = hist.size /\ client.buf = hist.buf)

C1_Witness ==
    /\ ReadBack /\ WriteOk
    /\ hist.size = MaxSize
    /\ hist.offset % CHUNKSIZE # 0
    /\ TargetN(client) = HostSize
    /\ client.buf = hist.buf

AllTasks == {<<d, k>> \in Hosts \X (1 .. (MaxChunk + 2)) : k <= Len(srv[d].tasks)}

TaskOf(dk) == srv[dk[1]].tasks[dk[2]]

\* C2: in a client write every write tasklet submitted on any daemon is for a
\* chunk of the written range, no chunk gets two tasklets, the tasklet's
\* intra-chunk offset is offset mod CHUNKSIZE for the first chunk and 0 for the
\* others, and its size is the overlap of the written range with the chunk; when
\* the write has returned successfully every chunk of the range has its tasklet.
C2_WriteTasklets ==
    client.op = "write" =>
        /\ \A dk \in AllTasks :
              LET t == TaskOf(dk)
              IN  /\ t.chnk_id \in CallChunks
                  /\ t.offset = IntraOffset(t.chnk_id, client.offset)
                  /\ t.size = Overlap(t.chnk_id, client.offset, client.size)
        /\ \A dk1, dk2 \in AllTasks :
              TaskOf(dk1).chnk_id = TaskOf(dk2).chnk_id => dk1 = dk2
        /\ (client.pc = "done" /\ client.ret = client.size /\ client.errno = 0) =>
              \A c \in CallChunks : \E dk \in AllTasks : TaskOf(dk).chnk_id = c

C2_Witness ==
    /\ Returned("write")
    /\ client.ret = client.size
    /\ client.offset = CHUNKSIZE - 1
    /\ client.size = 2
    /\ \E dk \in AllTasks :
          TaskOf(dk).chnk_id = 0 /\ TaskOf(dk).offset = CHUNKSIZE - 1 /\ TaskOf(dk).size = 1
    /\ \E dk \in AllTasks :
          TaskOf(dk).chnk_id = 1 /\ TaskOf(dk).offset = 0 /\ TaskOf(dk).size = 1

AllIssued ==
    /\ client.pc \in {"join", "done"}
    /\ TargetN(client) > 0
    /\ \A j \in 1 .. TargetN(client) : client.rpc_handles[j].state # "null"

SentSizes == [j \in 1 .. TargetN(client) |-> srv[client.targets[j]].in.total_chunk_size]

\* C3: once a client write or read has issued all its RPCs, the
\* total_chunk_size fields of the RPC inputs sum to the size of the call.
C3_SizesSum == AllIssued => SumSeq(SentSizes) = client.size

C3_Witness ==
    /\ AllIssued
    /\ client.op = "read"
    /\ TargetN(client) = HostSize
    /\ client.offset % CHUNKSIZE # 0
    /\ (client.offset + client.size) % CHUNKSIZE # 0
    /\ SumSeq(SentSizes) = client.size

AllSucceeded ==
    /\ client.pc = "done"
    /\ client.err = 0
    /\ TargetN(client) > 0
    /\ \A j \in 1 .. TargetN(client) :
          /\ client.rpc_handles[j].state = "completed"
          /\ srv[client.targets[j]].out.err = 0

IoSizes == [j \in 1 .. TargetN(client) |-> srv[client.targets[j]].out.io_size]

\* chunk c holds fewer bytes than the call's range needs from it
ShortChunk(c) ==
    LET f == store[hash[c]][c]
    IN  \/ ~f.exists
        \/ Len(f.data) < IntraOffset(c, client.offset)
                            + Overlap(c, client.offset, client.size)

\* C4: when every per-target RPC of a client call succeeded, the io_size values
\* of the responses sum to the requested size for a write; for a read they sum
\* to at most the requested size, and to less only when some chunk of the range
\* is missing or short.
C4_IoSizeSum ==
    AllSucceeded =>
        /\ client.ret = SumSeq(IoSizes)
        /\ client.op = "write" => SumSeq(IoSizes) = client.size
        /\ client.op = "read" =>
              /\ SumSeq(IoSizes) <= client.size
              /\ SumSeq(IoSizes) < client.size => \E c \in CallChunks : ShortChunk(c)

C4_Witness ==
    /\ AllSucceeded
    /\ client.op = "read"
    /\ TargetN(client) = HostSize
    /\ SumSeq(IoSizes) > 0
    /\ SumSeq(IoSizes) < client.size

WriteResponded(d) == srv[d].in.op = "write" /\ srv[d].responded > 0

\* C5: a write handler has sent its response only when every write tasklet it
\* submitted has completed, also when the walk stopped on a failed transfer or
\* a failed submission.
C5_ResponseAfterTasklets == \A d \in Hosts : WriteResponded(d) => TasksDone(srv[d])

\* C6: when a write or read handler has returned, its bulk buffer (if it was
\* created) is freed, its input is freed and its RPC handle is destroyed.
C6_ReleasedOnReturn ==
    \A d \in Hosts :
        srv[d].pc = "done" =>
            /\ srv[d].bulk_handle # "created"
            /\ srv[d].in_freed
            /\ srv[d].handle_destroyed

InFlight(j) ==
    client.rpc_handles[j].state = "inflight" /\ ~client.rpc_handles[j].waited

\* C7: while an RPC issued by the client call has not been waited on, both bulk
\* registrations of the user buffer exist: they are created before the first
\* RPC is issued and freed only after the last issued RPC was waited on.
C7_BulkOutlivesRpcs ==
    \A j \in 1 .. TargetN(client) :
        InFlight(j) =>
            client.rpc_bulk_handle = "created" /\ client.ipc_bulk_handle = "created"

WaitFailed(c) == \E j \in 1 .. TargetN(c) : c.rpc_handles[j].state = "failed"

Drained(c) ==
    \A j \in 1 .. TargetN(c) :
        /\ c.rpc_handles[j].waited
        /\ c.rpc_handles[j].out_freed
        /\ c.rpc_handles[j].destroyed = 1

\* C8: once margo_wait has failed on a handle of the join loop the error flag
\* stays set until the call returns, the call returns a negative value with
\* every handle waited on, its output freed and the handle destroyed, and the
\* step that observes the failure leaves errno = EBUSY.
C8_StickyTransportError ==
    /\ [](WaitFailed(client) =>
            /\ client.err < 0
            /\ client.pc = "done" => (client.ret < 0 /\ Drained(client)))
    /\ [][(~WaitFailed(client) /\ WaitFailed(client')) => client'.errno = EBUSY]_vars

C8_Witness ==
    /\ client.pc = "done"
    /\ TargetN(client) = HostSize
    /\ client.rpc_handles[1].state = "failed"
    /\ client.rpc_handles[2].state = "completed"
    /\ srv[client.targets[2]].out.io_size > 0
    /\ client.ret < 0
    /\ client.errno = EBUSY

FailedWaits == Cardinality({j \in 1 .. TargetN(client) : client.rpc_handles[j].state = "failed"})

\* C9: a client write in which the only failures are time-outs of margo_wait,
\* fewer than RPC_TRIES for each target, is retried and returns the full size.
C9_RetryOnTimeout ==
    (/\ Returned("write")
     /\ FailedWaits > 0
     /\ FailedWaits < RPC_TRIES
     /\ FailedWaits = MaxFaults - faults) => client.ret = client.size

TaskFailed(s) == \E k \in 1 .. Len(s.tasks) : s.tasks[k].res < 0

OkSizes(s) ==
    [k \in 1 .. Len(s.tasks) |-> IF s.tasks[k].res < 0 THEN 0 ELSE s.tasks[k].size]

\* C10: when the write handler has submitted the tasklets of all its chunks and
\* one of them failed with ENOSPC, every tasklet has run to completion, the
\* successful ones wrote their full size, and the response carries err = ENOSPC
\* and the sum of the sizes of the successful tasklets as io_size.
C10_DiskErrorReported ==
    \A d \in Hosts :
        (/\ WriteResponded(d)
         /\ Len(srv[d].tasks) = srv[d].in.chunk_n
         /\ TaskFailed(srv[d])) =>
            /\ TasksDone(srv[d])
            /\ \A k \in 1 .. Len(srv[d].tasks) :
                  srv[d].tasks[k].res \in {0 - ENOSPC, srv[d].tasks[k].size}
            /\ srv[d].out.err = ENOSPC
            /\ srv[d].out.io_size = SumSeq(OkSizes(srv[d]))

C10_Witness ==
    \E d \in Hosts :
        /\ WriteResponded(d)
        /\ Len(srv[d].tasks) = 3
        /\ srv[d].tasks[2].res = 0 - ENOSPC
        /\ srv[d].out.err = ENOSPC
        /\ srv[d].out.io_size = srv[d].tasks[1].size + srv[d].tasks[3].size
        /\ srv[d].out.io_size > 0

\* ------------------------------------------------------------ C11
PullFailed(d) == srv[d].in.op = "write" /\ srv[d].out.err = EBUSY

\* C11: a failed pull in the write handler's walk makes the handler respond
\* err = EBUSY and return; the chunk whose pull failed and the chunks after it
\* get no tasklet, and from then on the handler submits no tasklet and moves no
\* byte into its buffer.
C11_PullFailureStops ==
    /\ [][\A d \in Hosts :
            (SrvPullFail(d) \/ SrvPullRejected(d)) =>
                /\ srv'[d].pc = "done"
                /\ srv'[d].responded = 1
                /\ srv'[d].out.err = EBUSY
                /\ srv'[d].tasks = srv[d].tasks
                /\ srv'[d].sbuf = srv[d].sbuf]_vars
    /\ [](\A d \in Hosts :
            PullFailed(d) =>
                /\ srv[d].pc = "done"
                /\ \A k \in 1 .. Len(srv[d].tasks) :
                      srv[d].tasks[k].chnk_id < srv[d].chnk_id_file)
    /\ [][\A d \in Hosts :
            (PullFailed(d) /\ srv'[d].in = srv[d].in) =>
                /\ Len(srv'[d].tasks) = Len(srv[d].tasks)
                /\ srv'[d].sbuf = srv[d].sbuf
                /\ srv'[d].out = srv[d].out
                /\ srv'[d].responded = srv[d].responded]_vars

C11_Witness ==
    \E d \in Hosts :
        /\ PullFailed(d)
        /\ srv[d].responded = 1
        /\ srv[d].in.chunk_n = 3
        /\ Len(srv[d].tasks) = 1
        /\ srv[d].tasks[1].state = "done"

\* ------------------------------------------------------------ C12, C13
ReadResponded(d) == srv[d].in.op = "read" /\ srv[d].responded > 0

ReadTasks == {dk \in AllTasks : srv[dk[1]].in.op = "read" /\ TaskOf(dk).state = "done"}

ChunkFile(dk) == store[dk[1]][TaskOf(dk).chnk_id]

\* the bytes chunk file f holds in [offset, offset + size)
LiveBytes(f, size, offset) ==
    IF f.exists THEN Min(size, Max(0, Len(f.data) - offset)) ELSE 0

LiveSizes(d) ==
    [k \in 1 .. Len(srv[d].tasks) |->
        LiveBytes(store[d][srv[d].tasks[k].chnk_id],
                  srv[d].tasks[k].size, srv[d].tasks[k].offset)]

HasHole(d) == \E k \in 1 .. Len(srv[d].tasks) : ~store[d][srv[d].tasks[k].chnk_id].exists

WriteCompletes(d, k) ==
    /\ srv[d].in.op = "write"
    /\ k <= Len(srv[d].tasks)
    /\ srv[d].tasks[k].state = "pending"
    /\ srv[d].bulk_handle = "created"
    /\ srv'[d].in = srv[d].in
    /\ srv'[d].tasks[k].state = "done"
    /\ srv'[d].tasks[k].res >= 0

\* C14: whatever the positional writes of write_chunk do (short counts, EINTR,
\* EAGAIN, EWOULDBLOCK), a write_chunk that completes without error returns
\* size, and the chunk file then holds buf[0 .. size) at [offset, offset + size).
C14_WriteChunkComplete ==
    [][\A d \in Hosts : \A k \in 1 .. (MaxChunk + 1) :
          WriteCompletes(d, k) =>
              LET t == srv[d].tasks[k]
              IN  /\ t.offset + t.size <= CHUNKSIZE
                  /\ srv'[d].tasks[k].res = t.size
                  /\ store'[d][t.chnk_id].exists
                  /\ Slice(store'[d][t.chnk_id].data, t.offset, t.size)
                        = Slice(srv[d].sbuf, t.buf_off, t.size)]_vars

C14_Witness ==
    \E dk \in AllTasks :
        LET t == TaskOf(dk)
            d == dk[1]
        IN  /\ srv[d].in.op = "write"
            /\ t.state = "done"
            /\ t.offset = 1
            /\ t.size = CHUNKSIZE - 1
            /\ t.res = t.size
            /\ Slice(store[d][t.chnk_id].data, t.offset, t.size)
                  = Slice(srv[d].sbuf, t.buf_off, t.size)

AllFilesExist(d) == ~HasHole(d)

\* C15: read_chunk on an existing chunk file of length len returns
\* min(size, max(0, len - offset)) and raises no error, whatever its positional
\* reads do (short counts, retryable errors), and the bytes it read are the
\* file's; a read RPC over existing chunk files of which one ends before the
\* requested range responds err = 0 with io_size below total_chunk_size.
C15_ReadChunkShortAtEof ==
    /\ \A dk \in ReadTasks :
          ChunkFile(dk).exists =>
              LET t == TaskOf(dk)
                  n == Min(t.size, Max(0, Len(ChunkFile(dk).data) - t.offset))
              IN  /\ t.offset + t.size <= CHUNKSIZE
                  /\ t.res = n
                  /\ Slice(srv[dk[1]].sbuf, t.buf_off, n)
                        = Slice(ChunkFile(dk).data, t.offset, n)
    /\ \A d \in Hosts :
          (/\ ReadResponded(d)
           /\ AllFilesExist(d)
           /\ \E k \in 1 .. Len(srv[d].tasks) : LiveSizes(d)[k] < srv[d].tasks[k].size) =>
              /\ srv[d].out.err = 0
              /\ srv[d].out.io_size = SumSeq(LiveSizes(d))
              /\ srv[d].out.io_size < srv[d].in.total_chunk_size

C15_Witness ==
    \E d \in Hosts :
        /\ ReadResponded(d)
        /\ AllFilesExist(d)
        /\ Len(srv[d].tasks) = 2
        /\ srv[d].tasks[1].res = srv[d].tasks[1].size
        /\ srv[d].tasks[2].res > 0
        /\ srv[d].tasks[2].res < srv[d].tasks[2].size
        /\ srv[d].out.err = 0
        /\ srv[d].out.io_size < srv[d].in.total_chunk_size

\* ------------------------------------------------------------ C16
\* C16: every chunk file on every daemon has a length between 0 and CHUNKSIZE,
\* whatever writes, truncates and trims have run and however they interleave.
C16_ChunkLengthBounded ==
    \A d \in Hosts : \A c \in ChunkIds :
        /\ Len(store[d][c].data) >= 0
        /\ Len(store[d][c].data) <= CHUNKSIZE
        /\ ~store[d][c].exists => store[d][c].data = <<>>

\* a truncate has cut the boundary chunk of a daemon during a write call that
\* has also left a full chunk file there
C16_Witness ==
    /\ client.pc # "done"
    /\ \E d \in Hosts :
          LET c == TruncChunkStart(trunc[d].length) - 1
          IN  /\ trunc[d].pc = "done"
              /\ trunc[d].out = 0
              /\ trunc[d].length % CHUNKSIZE # 0
              /\ store[d][c].exists
              /\ Len(store[d][c].data) = trunc[d].length % CHUNKSIZE
              /\ \E b \in ChunkIds : Len(store[d][b].data) = CHUNKSIZE

\* ------------------------------------------------------------ C17
\* the truncate RPC of daemon d has been answered with err = 0
TruncOk(d) == trunc[d].pc = "done" /\ trunc[d].responded = 1 /\ trunc[d].out = 0

\* the truncate RPC of daemon d is being served
TruncActive(d) == trunc[d].pc \in {"pending", "task", "trimmed", "ran"}

\* what a truncate to `length` that succeeded leaves on daemon d
TruncPost(d, length) ==
    /\ \A c \in ChunkIds : c >= TruncChunkStart(length) => ~store[d][c].exists
    /\ length % CHUNKSIZE # 0 =>
          /\ store[d][TruncChunkStart(length) - 1].exists
          /\ Len(store[d][TruncChunkStart(length) - 1].data) = length % CHUNKSIZE

\* C17: once a truncate RPC with length L has been answered with err = 0, the
\* daemon holds no chunk file with id >= ceil(L / CHUNKSIZE) and, when L is not
\* a multiple of CHUNKSIZE, its chunk ceil(L / CHUNKSIZE) - 1 has length
\* L mod CHUNKSIZE; the trim is complete before the boundary chunk is touched,
\* and no chunk file with a lower id changes while the RPC is served.
C17_TruncatePostcondition ==
    /\ [](\A d \in Hosts : TruncOk(d) => TruncPost(d, trunc[d].length))
    /\ [](\A d \in Hosts : trunc[d].pc = "trimmed" =>
             \A c \in ChunkIds :
                 c >= TruncChunkStart(trunc[d].length) => ~store[d][c].exists)
    /\ [][\A d \in Hosts :
             trunc[d].pc \in {"pending", "task"} /\ trunc[d].length % CHUNKSIZE # 0 =>
                 store'[d][TruncChunkStart(trunc[d].length) - 1]
                     = store[d][TruncChunkStart(trunc[d].length) - 1]]_vars
    /\ [][\A d \in Hosts : TruncActive(d) =>
             \A c \in ChunkIds :
                 c < trunc[d].length \div CHUNKSIZE => store'[d][c] = store[d][c]]_vars

\* a write reached chunks 0, 1 and 2 of one daemon and a truncate to a length
\* inside chunk 1 succeeded there: chunk 0 is whole, chunk 1 is cut
C17_Witness ==
    \E d \in Hosts :
        /\ TruncOk(d)
        /\ trunc[d].length % CHUNKSIZE # 0
        /\ TruncChunkStart(trunc[d].length) = 2
        /\ \A c \in 0 .. 2 : hash[c] = d
        /\ hist.ret = hist.size
        /\ hist.offset + hist.size > 2 * CHUNKSIZE
        /\ store[d][0].exists
        /\ Len(store[d][1].data) = trunc[d].length % CHUNKSIZE
        /\ ~store[d][2].exists

\* ------------------------------------------------------------ C18
\* every daemon has served a truncate RPC with this length
TruncatedTo(length) ==
    \A d \in Hosts : trunc[d].pc = "done" /\ trunc[d].length = length

\* a read of [0, n) with n >= length has returned after a file written as
\* [0, S) was truncated to `length` < S
ReadAfterTruncate(length) ==
    /\ Returned("read")
    /\ WriteOk
    /\ hist.offset = 0
    /\ TruncatedTo(length)
    /\ length < hist.size
    /\ client.offset = 0
    /\ client.size >= length

\* C18: when a file written as [0, S) has been truncated to L < S on every
\* daemon, a client read of [0, n) with n >= L returns exactly L bytes, and
\* they are the first L bytes that were written.
C18_ReadAfterTruncate ==
    \A length \in 0 .. MaxSize :
        ReadAfterTruncate(length) =>
            /\ client.ret = length
            /\ client.errno = 0
            /\ \A k \in 1 .. length : client.buf[k] = hist.buf[k]

\* a file of two chunks spread over both daemons, cut inside its second chunk,
\* then read over its whole former length
C18_Witness ==
    /\ ReadAfterTruncate(CHUNKSIZE + 1)
    /\ hist.size > CHUNKSIZE + 1
    /\ client.size = hist.size
    /\ hash[0] # hash[1]
    /\ client.ret = CHUNKSIZE + 1

\* ------------------------------------------------------------ C19
\* the step in which the truncate tasklet of daemon d runs trim_chunk_space
TrimStep(d) == trunc[d].pc = "task" /\ trunc'[d].pc \in {"trimmed", "ran"}

\* C19: trim_chunk_space(path, chunk_start) on an existing chunk directory
\* removes every chunk file with id >= chunk_start; an unlink that reports
\* ENOENT is not an error; when unlinks fail with another errno the other files
\* are still removed and one error (EIO) is raised after the walk; no chunk
\* file with id < chunk_start is removed or changed.
C19_TrimRemovesUpperChunks ==
    /\ [][\A d \in Hosts : (TrimStep(d) /\ dirs[d]) =>
             LET chunk_start == TruncChunkStart(trunc[d].length)
                 failing     == trunc'[d].failing
             IN  /\ \A c \in ChunkIds : c < chunk_start => store'[d][c] = store[d][c]
                 /\ \A c \in ChunkIds :
                       c >= chunk_start => (store'[d][c].exists <=> c \in failing)
                 /\ \A c \in failing : store'[d][c] = store[d][c]
                 /\ trunc'[d].err = (IF failing = {} THEN 0 ELSE EIO)
                 /\ failing # {} => trunc'[d].pc = "ran"]_vars
    /\ [](\A d \in Hosts :
             (trunc[d].pc = "done" /\ trunc[d].failing # {}) =>
                 (trunc[d].out = EIO /\ trunc[d].responded = 1))

\* on a daemon that held three chunk files of the written range, a trim from
\* chunk 1 could not unlink one of the two upper files: the other one is gone,
\* chunk 0 is still there and the tasklet ended with EIO
C19_Witness ==
    \E d \in Hosts : \E kept, gone \in 1 .. 2 :
        /\ WriteOk
        /\ \A c \in 0 .. 2 : hash[c] = d
        /\ hist.offset < CHUNKSIZE
        /\ hist.offset + hist.size > 2 * CHUNKSIZE
        /\ TruncChunkStart(trunc[d].length) = 1
        /\ trunc[d].pc = "ran"
        /\ trunc[d].err = EIO
        /\ trunc[d].failing = {kept}
        /\ gone # kept
        /\ store[d][0].exists
        /\ store[d][kept].exists
        /\ ~store[d][gone].exists

\* ------------------------------------------------------------ C20
\* the step in which trim_chunk_space runs on daemon d for the second time with
\* the same chunk_start
SecondTrim(d) == TrimStep(d) /\ Len(trunc[d].trims) = 1

\* C20: trim_chunk_space(path, k) is idempotent: run a second time with the
\* same k, it leaves the chunk files as the first run left them and ends with
\* the outcome of the first run.
C20_TrimIdempotent ==
    [][\A d \in Hosts : SecondTrim(d) =>
          /\ store'[d] = store[d]
          /\ trunc'[d].trims = <<trunc[d].trims[1], trunc[d].trims[1]>>]_vars

\* the first trim removed the upper chunk files of a daemon that also keeps a
\* lower one, and the repeated truncate has run the trim again
C20_Witness ==
    \E d \in Hosts :
        /\ WriteOk
        /\ \A c \in 0 .. 1 : hash[c] = d
        /\ hist.offset < CHUNKSIZE
        /\ hist.offset + hist.size > CHUNKSIZE
        /\ TruncChunkStart(trunc[d].length) = 1
        /\ trunc[d].again
        /\ trunc[d].trims = <<0, 0>>
        /\ store[d][0].exists
        /\ ~store[d][1].exists

\* ------------------------------------------------------------ C21
\* a read from offset 0 that covers the range of the one write made to the
\* empty file has returned
ReadFromZero ==
    /\ Returned("read")
    /\ WriteOk
    /\ client.offset = 0
    /\ client.size >= hist.offset + hist.size

\* the read buffer with the written bytes at their place and zeros elsewhere
HoleBuf ==
    [k \in 1 .. client.size |->
        IF k > hist.offset /\ k <= hist.offset + hist.size
        THEN hist.buf[k - hist.offset] ELSE 0]

\* the two chunk files of the scenario with chunks of 8 bytes, after
\* write(off = 5, size = 4), and what read_chunk returns for 8 bytes of each
Scenario8Chunk0 == write_chunk(NoFile, <<1, 2, 3>>, 3, 5, <<>>).file

Scenario8Chunk1 == write_chunk(NoFile, <<4>>, 1, 0, <<>>).file

Scenario8IoSize ==
    read_chunk(Scenario8Chunk0, 8, 0, <<>>).ret + read_chunk(Scenario8Chunk1, 8, 0, <<>>).ret

\* C21 as stated: a read from offset 0 over the range of a write made at a
\* positive offset into an empty file returns only the number of bytes written
\* (the gap before them counts as 0 bytes), the written bytes at their place
\* and zeros elsewhere.
C21_HolesCountZero ==
    ReadFromZero => (client.ret = hist.size /\ client.buf = HoleBuf)

\* C21 as amended: such a read also counts the gap between the start of the
\* first chunk file and the first byte written, which is part of the chunk
\* file and is read as zeros; a chunk without a file and the range past the
\* end of a chunk file count as 0 bytes.  With chunks of 8 bytes,
\* write(off = 5, size = 4) and read(off = 0, size = 16) the result is 9.
C21_GapInFileCounts ==
    /\ Scenario8IoSize = 9
    /\ ReadFromZero =>
          /\ client.ret = lpad(hist.offset, CHUNKSIZE) + hist.size
          /\ client.errno = 0
          /\ client.buf = HoleBuf

\* placement k mod 2, a write that starts inside chunk 0 and ends in chunk 1,
\* and a read from 0 that asks for more than the file holds
C21_Witness ==
    /\ ReadFromZero
    /\ \A c \in ChunkIds : hash[c] = c % HostSize
    /\ hist.offset > 0
    /\ hist.offset < CHUNKSIZE
    /\ hist.offset + hist.size > CHUNKSIZE
    /\ client.size > hist.offset + hist.size
    /\ client.ret = hist.offset + hist.size

\* ------------------------------------------------------------ C22
\* the client's current call is a write of zero bytes
EmptyCall == client.op = "write" /\ client.size = 0 /\ client.calls > 0

\* C22: a client write of zero bytes issues no RPC, changes no chunk file and
\* returns 0 (unless the transport refused to register the empty buffer).
C22_ZeroWriteNoOp ==
    /\ [](EmptyCall => \A d \in Hosts : srv[d].pc = "idle")
    /\ [][EmptyCall => store' = store]_vars
    /\ []((EmptyCall /\ client.pc = "done" /\ client.rpc_bulk_handle # "null")
             => client.ret = 0)

\* ------------------------------------------------------------ C23
\* a client call has bucketized its chunks
Called == client.calls > 0 /\ client.size > 0

SeqSet(s) == {s[k] : k \in 1 .. Len(s)}

Ascending(s) == \A j, k \in 1 .. Len(s) : j < k => s[j] < s[k]

\* C23: in one client call every chunk id of [chnk_start, chnk_end] is in the
\* chunk list of exactly one target, the one placement gives; every chunk list
\* is in ascending order and holds nothing else; the targets are distinct, one
\* RPC is forwarded to each of them and a daemon that has been sent the RPC of
\* the call is not sent another.
C23_OneRpcPerTarget ==
    /\ [](Called =>
            /\ \A c \in client.chnk_start .. client.chnk_end :
                  \A t \in Hosts :
                      Cardinality({k \in 1 .. Len(client.target_chnks[t]) :
                                      client.target_chnks[t][k] = c})
                          = (IF t = adafs_hash_path_chunk(c) THEN 1 ELSE 0)
            /\ \A t \in Hosts :
                  /\ Ascending(client.target_chnks[t])
                  /\ SeqSet(client.target_chnks[t])
                        \subseteq client.chnk_start .. client.chnk_end
            /\ Cardinality(SeqSet(client.targets)) = Len(client.targets)
            /\ SeqSet(client.targets)
                  = {adafs_hash_path_chunk(c) : c \in client.chnk_start .. client.chnk_end}
            /\ Len(client.rpc_handles) = Len(client.targets)
            /\ client.pc \in {"join", "done"} =>
                  \A d \in Hosts : srv[d].pc # "idle" <=> d \in SeqSet(client.targets))
    /\ [][\A d \in Hosts :
             (srv'[d].pc = "pending" /\ srv[d].pc # "pending") => srv[d].pc = "idle"]_vars

\* three chunks, the first and the last on one daemon and the middle one on
\* the other: two RPCs, the first target's list is <<first, last>>
C23_Witness ==
    /\ Called
    /\ client.pc = "done"
    /\ client.chnk_end = client.chnk_start + 2
    /\ Len(client.targets) = 2
    /\ client.target_chnks[client.targets[1]] = <<client.chnk_start, client.chnk_end>>
    /\ client.target_chnks[client.targets[2]] = <<client.chnk_start + 1>>
    /\ \A d \in Hosts : srv[d].responded = 1

\* ------------------------------------------------------------ C24
\* the byte range of the client's call spans exactly host_size + 1 chunks
SpansOneMore == Called /\ (client.chnk_end - client.chnk_start) + 1 = HostSize + 1

\* the placement hands consecutive chunk ids to the daemons in turn
RoundRobin == \A c \in ChunkIds : adafs_hash_path_chunk(c) = c % HostSize

\* C24 as stated: in a call that spans host_size + 1 chunks every daemon
\* receives at least one chunk and at least one daemon receives two.
C24_EveryDaemonServed ==
    SpansOneMore =>
        /\ \A d \in Hosts : Len(client.target_chnks[d]) >= 1
        /\ \E d \in Hosts : Len(client.target_chnks[d]) >= 2

\* C24 as amended: in a call that spans host_size + 1 chunks at least one
\* daemon receives two chunks, whatever the placement; every daemon receives
\* at least one when the placement is chunk id mod host_size.
C24_SomeDaemonServedTwice ==
    SpansOneMore =>
        /\ \E d \in Hosts : Len(client.target_chnks[d]) >= 2
        /\ SumSeq([k \in 1 .. HostSize |-> Len(client.target_chnks[k - 1])]) = HostSize + 1
        /\ RoundRobin => \A d \in Hosts : Len(client.target_chnks[d]) >= 1

\* host_size + 1 chunks that placement puts on one daemon: it gets them all,
\* the other daemons get none and no RPC
C24_Witness ==
    /\ SpansOneMore
    /\ client.pc = "done"
    /\ \E d \in Hosts :
          /\ Len(client.target_chnks[d]) = HostSize + 1
          /\ client.targets = <<d>>
          /\ \A e \in Hosts \ {d} : srv[e].pc = "idle"

\* ------------------------------------------------------------ C25
\* the targets that have been sent the RPC of the client's call
Contacted == {t \in SeqSet(client.targets) : srv[t].in.op = client.op}

OwnsFirst(t) == t = adafs_hash_path_chunk(client.chnk_start)

OwnsLast(t) == t = adafs_hash_path_chunk(client.chnk_end)

\* C25 as stated: the total_chunk_size sent to target t is
\* |target_chnks[t]| * CHUNKSIZE, minus offset mod CHUNKSIZE if t owns the first
\* chunk, minus CHUNKSIZE - ((offset + size) mod CHUNKSIZE) if t owns the last.
C25_TotalChunkSizeAsStated ==
    Called =>
        \A t \in Contacted :
            srv[t].in.total_chunk_size =
                Len(client.target_chnks[t]) * CHUNKSIZE
                  - (IF OwnsFirst(t) THEN client.offset % CHUNKSIZE ELSE 0)
                  - (IF OwnsLast(t)
                     THEN CHUNKSIZE - ((client.offset + client.size) % CHUNKSIZE) ELSE 0)

\* C25 as amended: the right pad taken off for the owner of the last chunk is
\* (CHUNKSIZE - ((offset + size) mod CHUNKSIZE)) mod CHUNKSIZE, which is 0 when
\* the range ends on a chunk boundary; total_chunk_size is then the number of
\* bytes of the range that lie in the chunks of t.
C25_TotalChunkSizeRightPad ==
    Called =>
        \A t \in Contacted :
            /\ srv[t].in.total_chunk_size =
                  Len(client.target_chnks[t]) * CHUNKSIZE
                    - (IF OwnsFirst(t) THEN client.offset % CHUNKSIZE ELSE 0)
                    - (IF OwnsLast(t)
                       THEN (CHUNKSIZE - ((client.offset + client.size) % CHUNKSIZE))
                               % CHUNKSIZE
                       ELSE 0)
            /\ srv[t].in.total_chunk_size =
                  SumSeq([k \in 1 .. Len(client.target_chnks[t]) |->
                             Overlap(client.target_chnks[t][k], client.offset, client.size)])

\* a call over two chunks on different daemons that starts inside the first
\* and ends on the boundary of the second: the owner of the last chunk is sent
\* CHUNKSIZE
C25_Witness ==
    /\ Called
    /\ client.offset % CHUNKSIZE # 0
    /\ (client.offset + client.size) % CHUNKSIZE = 0
    /\ client.chnk_end = client.chnk_start + 1
    /\ ~OwnsFirst(adafs_hash_path_chunk(client.chnk_end))
    /\ adafs_hash_path_chunk(client.chnk_end) \in Contacted
    /\ srv[adafs_hash_path_chunk(client.chnk_end)].in.total_chunk_size = CHUNKSIZE
    /\ srv[adafs_hash_path_chunk(client.chnk_start)].in.total_chunk_size
          = CHUNKSIZE - (client.offset % CHUNKSIZE)

\* ------------------------------------------------------------ C26
\* C26: a read handler that ends its chunk walk with chnk_size_left_host equal
\* to total_chunk_size answers the client (with a cancellation indicator), and
\* one that ends it otherwise has joined its tasklets and answers with the
\* {err, io_size} of the join.
C26_NoMatchResponds ==
    [][\A d \in Hosts :
          (WalkOver(srv[d]) /\ srv[d].in.op = "read" /\ srv'[d].pc = "done") =>
              /\ srv'[d].responded = 1
              /\ IF srv[d].chnk_size_left_host = srv[d].in.total_chunk_size
                 THEN srv'[d].canceled
                 ELSE /\ TasksDone(srv[d])
                      /\ ~srv'[d].canceled
                      /\ srv'[d].out.io_size <= SumOk(srv[d].tasks)]_vars

\* ------------------------------------------------------------ C27
\* the handler of daemon d returns from its setup: the RPC was pending and is
\* answered without a chunk walk
SetupFails(d) == srv[d].pc = "pending" /\ srv'[d].pc = "done"

\* C27: a write or read handler that fails during setup (decoding the input,
\* creating or accessing the bulk buffer) responds once with err = EIO and
\* io_size = 0, moves no byte between its buffer and the client's, has no
\* tasklet and leaves every chunk file as it was.
C27_SetupFailure ==
    [][\A d \in Hosts :
          SetupFails(d) =>
              /\ srv'[d].responded = 1
              /\ srv'[d].out.err = EIO
              /\ srv'[d].out.io_size = 0
              /\ srv'[d].sbuf = <<>>
              /\ client'.buf = client.buf
              /\ srv'[d].tasks = <<>>
              /\ store' = store
              /\ dirs' = dirs]_vars

\* a handler that was sent a client's RPC for a non-empty byte range and
\* answered it from its setup, while the client waits for the answer
C27_Witness ==
    \E d \in Hosts :
        /\ srv[d].pc = "done"
        /\ srv[d].in.op \in {"write", "read"}
        /\ srv[d].in.total_chunk_size > 0
        /\ srv[d].chnk_size_left_host = 0
        /\ srv[d].sbuf = <<>>
        /\ srv[d].tasks = <<>>
        /\ srv[d].responded = 1
        /\ srv[d].out = [err |-> EIO, io_size |-> 0]
        /\ faults < MaxFaults
        /\ client.pc = "join"

\* ------------------------------------------------------------ C28
\* the call has returned from the end of its join loop
Joined == client.pc = "done" /\ client.op # "none" /\ client.i = TargetN(client)

\* out.err and out.io_size of the responses, in the order of the join loop
RespErr == [j \in 1 .. TargetN(client) |-> srv[client.targets[j]].out.err]

RespIoSize == [j \in 1 .. TargetN(client) |-> srv[client.targets[j]].out.io_size]

ErrResponses == {j \in 1 .. TargetN(client) : RespErr[j] # 0}

LastErrResponse == CHOOSE j \in ErrResponses : \A k \in ErrResponses : k <= j

\* the error flag of the join loop is raised only by a step of the join loop
\* in which margo_wait or margo_get_output fails
ErrOnlyFromJoin ==
    [][(client.err >= 0 /\ client'.err < 0) =>
            (client.pc = "join" /\ client'.pc = "join" /\ faults' < faults)]_vars

\* without a failure in the join loop the call returns the sum of the io_size
\* of all responses, and errno is the out.err of the last response that
\* reported one
DaemonErrorKeepsSize ==
    [](Joined /\ client.err >= 0 =>
          /\ client.ret = SumSeq(RespIoSize)
          /\ client.ret >= 0
          /\ ErrResponses # {} => client.errno = RespErr[LastErrResponse])

\* C28 as stated: the call returns a negative value only when waiting on or
\* decoding a response failed; when a daemon reports a nonzero out.err and no
\* such failure occurred, errno is that out.err and the call returns the
\* accumulated io_size, which is not negative.
C28_NegativeOnlyFromJoin ==
    /\ ErrOnlyFromJoin
    /\ [](client.pc = "done" /\ client.ret < 0 => client.err < 0)
    /\ DaemonErrorKeepsSize

\* C28 as amended: the call returns a negative value only when a transport
\* call of the client failed: registering the buffer or sending a request
\* (the call then returns at once), or waiting on or decoding a response.
C28_NegativeOnlyFromTransport ==
    /\ ErrOnlyFromJoin
    /\ [][(client' # client /\ client'.pc = "done" /\ client'.ret < 0) =>
              \/ client.err < 0
              \/ /\ faults' < faults
                 /\ client.pc \in {"idle", "fanout"}
                 /\ client'.errno = EBUSY]_vars
    /\ DaemonErrorKeepsSize

\* a call over two daemons of which one reported an error and the other
\* moved bytes: errno is the reported error, the result is the bytes moved
C28_Witness ==
    /\ Joined
    /\ client.err = 0
    /\ TargetN(client) = HostSize
    /\ ErrResponses # {}
    /\ client.errno = RespErr[LastErrResponse]
    /\ client.ret > 0
    /\ client.ret = SumSeq(RespIoSize)

\* ------------------------------------------------------------ C29
\* the bytes a finished tasklet contributes to io_size
Contribution(t) == IF t.state = "done" /\ t.res > 0 THEN t.res ELSE 0

\* the contributions added up in submission order and in the opposite order
SumForward(tasks) == SumSeq([k \in 1 .. Len(tasks) |-> Contribution(tasks[k])])

SumBackward(tasks) ==
    SumSeq([k \in 1 .. Len(tasks) |-> Contribution(tasks[Len(tasks) + 1 - k])])

\* tasklet k of daemon d completes in this step
Completes(d, k) ==
    /\ k \in 1 .. Len(srv[d].tasks)
    /\ Len(srv'[d].tasks) >= k
    /\ srv[d].tasks[k].state = "pending"
    /\ srv'[d].tasks[k].state = "done"

\* C29: the tasklets of a write RPC are submitted in ascending chunk-id order;
\* they complete in any order, the completion of one changes neither the
\* outcome of another nor another chunk file, and the io_size the handler
\* returns after the join is the sum of the sizes of the successful tasklets,
\* whichever way it is added up.
C29_IoSizeOrderIndependent ==
    /\ [](\A d \in Hosts :
            srv[d].in.op = "write" =>
                \A j, k \in 1 .. Len(srv[d].tasks) :
                    j < k => srv[d].tasks[j].chnk_id < srv[d].tasks[k].chnk_id)
    /\ [][\A d \in Hosts : \A k \in 1 .. (MaxChunk + 1) :
            (srv[d].in.op = "write" /\ Completes(d, k)) =>
                /\ \A j \in 1 .. Len(srv[d].tasks) :
                      j # k => srv'[d].tasks[j] = srv[d].tasks[j]
                /\ \A c \in ChunkIds :
                      c # srv[d].tasks[k].chnk_id => store'[d][c] = store[d][c]
                /\ srv'[d].sbuf = srv[d].sbuf]_vars
    /\ [][\A d \in Hosts :
            (WalkOver(srv[d]) /\ srv[d].in.op = "write" /\ srv'[d].pc = "done") =>
                /\ TasksDone(srv[d])
                /\ srv'[d].out.io_size = SumForward(srv[d].tasks)
                /\ srv'[d].out.io_size = SumBackward(srv[d].tasks)]_vars

\* a write handler that has submitted two tasklets and waits for them while
\* the second has completed with bytes written and the first has not
C29_Witness ==
    \E d \in Hosts :
        /\ srv[d].in.op = "write"
        /\ WalkOver(srv[d])
        /\ Len(srv[d].tasks) = 2
        /\ srv[d].tasks[1].state = "pending"
        /\ srv[d].tasks[2].state = "done"
        /\ srv[d].tasks[2].res > 0
        /\ srv[d].tasks[1].chnk_id < srv[d].tasks[2].chnk_id

\* ------------------------------------------------------------ C30
\* the handler of daemon d serves an RPC of the client's current call
ServesClient(d) ==
    /\ client.size > 0
    /\ srv[d].in.op = client.op
    /\ srv[d].in.bulk_handle \in {"rpc", "ipc"}

TaskSizes(s) == [k \in 1 .. Len(s.tasks) |-> s.tasks[k].size]

\* C30: a write or read handler that serves an RPC built by the client ends
\* its chunk walk with chnk_size_left_host = 0 and chnk_id_curr = chunk_n, and
\* the sizes of the chunks it serviced sum to total_chunk_size.
C30_WalkConsumesAll ==
    \A d \in Hosts :
        (ServesClient(d) /\ WalkOver(srv[d])) =>
            /\ srv[d].chnk_size_left_host = 0
            /\ srv[d].chnk_id_curr = srv[d].in.chunk_n
            /\ Len(srv[d].tasks) = srv[d].in.chunk_n
            /\ SumSeq(TaskSizes(srv[d])) = srv[d].in.total_chunk_size
            /\ \A k \in 1 .. Len(srv[d].tasks) : srv[d].tasks[k].size > 0

\* a read handler at the end of its walk over two chunks of a range that
\* starts and ends inside a chunk
C30_Witness ==
    \E d \in Hosts :
        /\ ServesClient(d)
        /\ client.op = "read"
        /\ WalkOver(srv[d])
        /\ srv[d].in.chunk_n = 2
        /\ srv[d].in.offset > 0
        /\ (client.offset + client.size) % CHUNKSIZE # 0
        /\ srv[d].chnk_size_left_host = 0
        /\ srv[d].chnk_id_curr = 2
        /\ SumSeq(TaskSizes(srv[d])) = srv[d].in.total_chunk_size
        /\ srv[d].in.total_chunk_size < 2 * CHUNKSIZE

\* ------------------------------------------------------------ C31
\* the tasklets of the handlers that serve the client's current call
ClientTasks == {dk \in AllTasks : ServesClient(dk[1])}

\* where the part of the byte range that falls into chunk c starts and ends in
\* the user buffer
UserFrom(c) == Max(c * CHUNKSIZE, client.offset) - client.offset

UserTo(c) == Min((c + 1) * CHUNKSIZE, client.offset + client.size) - client.offset

\* C31: for every chunk serviced in a write or read RPC built by the client,
\* the range of the client's buffer named by the bulk transfer,
\* [origin_offset, origin_offset + size), is the part of the user buffer that
\* maps to the chunk, and it lies inside [0, bulk_size).
C31_OriginRange ==
    \A dk \in ClientTasks :
        LET t  == TaskOf(dk)
            in == srv[dk[1]].in
        IN  /\ t.origin_offset = UserFrom(t.chnk_id)
            /\ t.origin_offset + t.size = UserTo(t.chnk_id)
            /\ t.size > 0
            /\ 0 <= t.origin_offset
            /\ t.origin_offset + t.size <= in.bulk_size
            /\ in.bulk_size = client.size

\* a call that starts inside a chunk and whose second and third chunk have
\* been serviced: their ranges start CHUNKSIZE - offset and
\* 2 * CHUNKSIZE - offset into the user buffer
C31_Witness ==
    /\ client.offset % CHUNKSIZE # 0
    /\ client.chnk_end = client.chnk_start + 2
    /\ \E dk1, dk2 \in ClientTasks :
          /\ TaskOf(dk1).chnk_id = client.chnk_start + 1
          /\ TaskOf(dk1).origin_offset = CHUNKSIZE - (client.offset % CHUNKSIZE)
          /\ TaskOf(dk1).size = CHUNKSIZE
          /\ TaskOf(dk2).chnk_id = client.chnk_end
          /\ TaskOf(dk2).origin_offset = 2 * CHUNKSIZE - (client.offset % CHUNKSIZE)
          /\ TaskOf(dk2).origin_offset + TaskOf(dk2).size = client.size

\* ------------------------------------------------------------ C32
\* the chunk ids of [chunk_start, chunk_end] whose bit is set in the input
BitChunks(in) ==
    {in.chunk_start + i : i \in {k \in DOMAIN in.wbitset : in.wbitset[k]}}

ServicedChunks(s) == {s.tasks[k].chnk_id : k \in 1 .. Len(s.tasks)}

PastMkdir(t) == t.state \in {"dir", "open"} \/ (t.state = "done" /\ t.res >= 0)

\* C33: when write_chunk calls for chunks of one file run concurrently on a
\* daemon where the chunk directory does not exist yet, under every
\* interleaving none fails in init_chunk_space: the directory exists for each
\* after its mkdir, exactly one call created it and the others saw EEXIST and
\* went on, and each completes with its size written and its data in its
\* chunk file.
C33_MkdirRace ==
    \A d \in Hosts :
        LET ts   == srv[d].tasks
            past == {k \in 1 .. Len(ts) : ts[k].state # "pending"}
        IN  /\ \A k \in past :
                  /\ PastMkdir(ts[k])
                  /\ dirs[d]
                  /\ ts[k].mkdir_errno \in {0, EEXIST}
            /\ past # {} => Cardinality({k \in past : ts[k].mkdir_errno = 0}) = 1
            /\ \A k \in 1 .. Len(ts) :
                  ts[k].state = "done" =>
                      /\ ts[k].res = ts[k].size
                      /\ store[d][ts[k].chnk_id].exists
                      /\ Slice(store[d][ts[k].chnk_id].data, ts[k].offset, ts[k].size)
                            = Slice(srv[d].sbuf, ts[k].buf_off, ts[k].size)

\* two tasklets of one daemon have completed with their data written; the one
\* submitted first lost the mkdir race and saw EEXIST
C33_Witness ==
    \E d \in Hosts :
        /\ Len(srv[d].tasks) = 2
        /\ srv[d].tasks[1].state = "done"
        /\ srv[d].tasks[2].state = "done"
        /\ srv[d].tasks[1].mkdir_errno = EEXIST
        /\ srv[d].tasks[2].mkdir_errno = 0
        /\ srv[d].tasks[1].res = srv[d].tasks[1].size
        /\ srv[d].tasks[2].res = srv[d].tasks[2].size
        /\ store[d][srv[d].tasks[1].chnk_id].exists
        /\ store[d][srv[d].tasks[2].chnk_id].exists

\* ------------------------------------------------------------ C34
\* C34: a write, read or truncate handler that has returned has sent exactly
\* one response to the client.
C34_OneResponse ==
    \A d \in Hosts :
        /\ srv[d].pc = "done" => srv[d].responded = 1
        /\ srv[d].responded <= 1
        /\ trunc[d].pc = "done" => trunc[d].responded = 1
        /\ trunc[d].responded <= 1

\* ------------------------------------------------------------ C35
\* C35: when a client write or read has returned, on whatever path, no bulk
\* handle created in the call is left unfreed, every RPC handle that was
\* forwarded has been destroyed, and no RPC handle was destroyed twice.
C35_ClientReleasesAll ==
    (client.pc = "done" /\ client.op # "none") =>
        /\ client.rpc_bulk_handle # "created"
        /\ client.ipc_bulk_handle # "created"
        /\ \A j \in 1 .. Len(client.rpc_handles) :
              /\ client.rpc_handles[j].destroyed <= 1
              /\ client.rpc_handles[j].state # "null" =>
                    client.rpc_handles[j].destroyed = 1

\* ------------------------------------------------------------ C36
\* the bytes the chunks serviced before task k take in the server buffer
SizesBefore(s, k) == SumSeq([j \in 1 .. (k - 1) |-> s.tasks[j].size])

\* C36: within a write or read RPC built by the client, the slice of the
\* server buffer of each serviced chunk, for the bulk transfer
\* [local_offset, local_offset + size) and for the tasklet
\* [buf_off, buf_off + size), starts where the slice of the chunk serviced
\* before it ends, the first at 0, and ends inside [0, total_chunk_size]:
\* the slices are pairwise disjoint.
C36_BufferSlices ==
    \A d \in Hosts :
        ServesClient(d) =>
            LET s == srv[d]
            IN  /\ \A k \in 1 .. Len(s.tasks) :
                      /\ s.tasks[k].local_offset = SizesBefore(s, k)
                      /\ s.tasks[k].buf_off = SizesBefore(s, k)
                      /\ s.tasks[k].size > 0
                      /\ s.tasks[k].local_offset + s.tasks[k].size
                            <= s.in.total_chunk_size
                /\ \A j, k \in 1 .. Len(s.tasks) :
                      j < k =>
                          s.tasks[j].buf_off + s.tasks[j].size <= s.tasks[k].buf_off

\* a handler that serviced two chunks of a call that starts inside its first
\* chunk: the second slice starts where the first, shorter than a chunk, ends
C36_Witness ==
    \E d \in Hosts :
        /\ ServesClient(d)
        /\ Len(srv[d].tasks) = 2
        /\ srv[d].tasks[1].local_offset = 0
        /\ srv[d].tasks[1].size < CHUNKSIZE
        /\ srv[d].tasks[2].local_offset = srv[d].tasks[1].size
        /\ srv[d].tasks[2].buf_off = srv[d].tasks[1].size
        /\ srv[d].tasks[2].local_offset + srv[d].tasks[2].size
              = srv[d].in.total_chunk_size

\* ------------------------------------------------------------ C37
\* byte p (counted from 1) of a chunk file lies outside [offset, offset + size)
Outside(p, offset, size) == p <= offset \/ p > offset + size

\* C37: a write_chunk call that succeeds leaves every byte of its chunk file
\* that existed before and lies outside [offset, offset + size) as it was,
\* the file is not shortened, and every other chunk file on every daemon is
\* unchanged.
C37_WriteChunkFrame ==
    [][\A d \in Hosts : \A k \in 1 .. (MaxChunk + 1) :
          (srv[d].in.op = "write" /\ Completes(d, k)
             /\ srv'[d].tasks[k].res = srv[d].tasks[k].size) =>
              LET t == srv[d].tasks[k]
                  f == store[d][t.chnk_id]
                  g == store'[d][t.chnk_id]
              IN  /\ g.exists
                  /\ Len(g.data) = Max(Len(f.data), t.offset + t.size)
                  /\ \A p \in 1 .. Len(f.data) :
                        Outside(p, t.offset, t.size) => g.data[p] = f.data[p]
                  /\ \A e \in Hosts : \A c \in ChunkIds :
                        (e # d \/ c # t.chnk_id) => store'[e][c] = store[e][c]]_vars

\* a chunk file after the second write to it: it holds a byte of the second
\* write at the tasklet's offset and, outside the tasklet's range, a byte of
\* the first write
C37_Witness ==
    /\ client.calls = 2
    /\ \E d \in Hosts : \E k \in 1 .. Len(srv[d].tasks) :
          LET t == srv[d].tasks[k]
              g == store[d][t.chnk_id]
          IN  /\ t.state = "done"
              /\ t.res = t.size
              /\ g.exists
              /\ Len(g.data) >= t.offset + t.size
              /\ g.data[t.offset + 1] > MaxSize
              /\ \E p \in 1 .. Len(g.data) :
                    Outside(p, t.offset, t.size) /\ g.data[p] \in 1 .. MaxSize

\* ------------------------------------------------------------ C38
\* the chunk that holds the new end of the file
BoundaryChunk(length) == TruncChunkStart(length) - 1

\* daemon d has answered a truncate to a length inside a chunk, has a chunk
\* directory for the file, and the boundary chunk is placed on another daemon
TruncatedElsewhere(d) ==
    /\ trunc[d].pc = "done"
    /\ trunc[d].length % CHUNKSIZE # 0
    /\ dirs[d]
    /\ adafs_hash_path_chunk(BoundaryChunk(trunc[d].length)) # d

\* C38: a truncate RPC with a length that is not a multiple of CHUNKSIZE is
\* answered with err = 0 by a daemon that holds chunks of the file but not the
\* boundary chunk, and no boundary chunk file is created there.
C38_TruncateWithoutBoundaryChunk ==
    \A d \in Hosts :
        TruncatedElsewhere(d) =>
            /\ trunc[d].out = 0
            /\ ~store[d][BoundaryChunk(trunc[d].length)].exists
\* ------------------------------------------------------------ C39
\* C39: trim_chunk_space for a path that has no chunk directory on this daemon
\* completes without raising an error and changes nothing, as
\* destroy_chunk_space does for a missing directory.
C39_TrimMissingDirQuiet ==
    [][\A d \in Hosts : (TrimStep(d) /\ ~dirs[d]) =>
          /\ trunc'[d].err = 0
          /\ store'[d] = store[d]
          /\ dirs'[d] = dirs[d]]_vars
\* ------------------------------------------------------------ C40
\* C40: the mapping from a file path to its chunk directory name (leading '/'
\* stripped, every other '/' replaced by ':') is injective over absolute
\* paths: two distinct file paths never share a chunk directory.
C40_ChunkDirInjective ==
    \A n1, n2 \in names :
        n1.file_path # n2.file_path => n1.chunk_dir # n2.chunk_dir

=============================================================================
